---- MODULE Spec2Model ----
(***************************************************************************)
(* er-hwinfo: device-tree read, hardware database load and validation,     *)
(* revision parsing and revision resolution (er::hwinfo::get).             *)
(*                                                                         *)
(* Texts (file contents, JSON member names) are sequences of one-character *)
(* strings.  A std::set is a strictly ascending sequence.  A JSON object   *)
(* is a sequence of members [name, value] in storage order.                *)
(***************************************************************************)
EXTENDS Integers, Sequences, FiniteSets, TLC

VARIABLES dt, schemaFile, hwdbFile, pc, device_opt, hwdb, type_iter,
          revisions, revision_iter, hwrevision_iter, calls, outcome, info,
          error,
          str, rest, extracted, formatted,
          main_pc, dev, cout, exit_code,
          ncalls, previous,
          dt2, q2

\* the state of one call of get over the files dt, schemaFile and hwdbFile
vars == <<dt, schemaFile, hwdbFile, pc, device_opt, hwdb, type_iter,
          revisions, revision_iter, hwrevision_iter, calls, outcome, info,
          error,
          str, rest, extracted, formatted,
          main_pc, dev, cout, exit_code,
          ncalls, previous,
          dt2, q2>>

\* the state outside that call: a text given to extract_revision, what
\* follows it in its buffer, and its result; the locals and the output of
\* main; the count of calls of get with the result of the call before; and
\* a second query with its device tree
other == <<str, rest, extracted, formatted, main_pc, dev, cout, exit_code,
           ncalls, previous, dt2, q2>>

(***************************************************************************)
(* Bounds of the checked instance.                                         *)
(***************************************************************************)
MaxMajor == 2
MaxMinor == 1
MaxPatch == 1
MaxKeys == 3

(***************************************************************************)
(* Characters and texts.                                                   *)
(***************************************************************************)
NUL == "\\0"

Digits == <<"0", "1", "2", "3", "4", "5", "6", "7", "8", "9">>

IsDigit(c) == \E i \in 1..10 : Digits[i] = c

DigitVal(c) == (CHOOSE i \in 1..10 : Digits[i] = c) - 1

IsSpace(c) == c \in {" ", "\t", "\n", "\r"}

Range(s) == {s[i] : i \in 1..Len(s)}

\* the text s from position i (1-based) to its end
Suffix(s, i) == SubSeq(s, i, Len(s))

\* const char* reading of a text: it ends at the first NUL character
CStr(s) ==
  IF \E i \in 1..Len(s) : s[i] = NUL
    THEN SubSeq(s, 1, (CHOOSE i \in 1..Len(s) :
                         s[i] = NUL /\ \A j \in 1..(i - 1) : s[j] /= NUL) - 1)
    ELSE s

\* the character read through a pointer at position i of the view s, whose
\* one-past-the-end position holds the character beyond
CharAt(s, i, beyond) == IF i <= Len(s) THEN s[i] ELSE beyond

(***************************************************************************)
(* struct revision                                                         *)
(***************************************************************************)
Rev(ma, mi, pa) == [major |-> ma, minor |-> mi, patch |-> pa]

\* a comparison that leaves the patch out
RevLessNoPatch(a, b) ==
  \/ a.major < b.major
  \/ a.major = b.major /\ a.minor < b.minor

\* operator<=> (defaulted): lexicographic over major, minor, patch
RevLess(a, b) ==
  \/ a.major < b.major
  \/ a.major = b.major /\ a.minor < b.minor
  \/ a.major = b.major /\ a.minor = b.minor /\ a.patch < b.patch

RECURSIVE ToDecimal(_)
\* fmt "{}" of an unsigned integer
ToDecimal(n) ==
  IF n < 10 THEN <<Digits[n + 1]>>
            ELSE ToDecimal(n \div 10) \o <<Digits[(n % 10) + 1]>>

\* each component is formatted with "{:02}"
as_string_padded(r) ==
  (IF r.major < 10 THEN <<"0">> ELSE <<>>) \o ToDecimal(r.major) \o <<".">>
    \o (IF r.minor < 10 THEN <<"0">> ELSE <<>>) \o ToDecimal(r.minor)
    \o <<".">>
    \o (IF r.patch < 10 THEN <<"0">> ELSE <<>>) \o ToDecimal(r.patch)

as_string(r) ==
  ToDecimal(r.major) \o <<".">> \o ToDecimal(r.minor) \o <<".">>
    \o ToDecimal(r.patch)

(***************************************************************************)
(* extract_revision_component / extract_revision                           *)
(***************************************************************************)
\* std::numeric_limits<std::size_t>::max() of a 64-bit build, as digits
SizeMaxDigits ==
  <<"1", "8", "4", "4", "6", "7", "4", "4", "0", "7",
    "3", "7", "0", "9", "5", "5", "1", "6", "1", "5">>

\* one past the last character of the run of digits of s that starts at first
DigitsEnd(s, first) ==
  IF \E i \in first..Len(s) : ~IsDigit(s[i])
    THEN CHOOSE i \in first..Len(s) :
           ~IsDigit(s[i]) /\ \A j \in first..(i - 1) : IsDigit(s[j])
    ELSE Len(s) + 1

\* a run of digits without its leading zeros
StripZeros(d) ==
  IF \E i \in 1..Len(d) : d[i] /= "0"
    THEN Suffix(d, CHOOSE i \in 1..Len(d) :
                     d[i] /= "0" /\ \A j \in 1..(i - 1) : d[j] = "0")
    ELSE <<>>

\* lexicographic comparison of two digit runs of equal length
DigitsGreater(a, b) ==
  \E i \in 1..Len(a) :
    /\ DigitVal(a[i]) > DigitVal(b[i])
    /\ \A j \in 1..(i - 1) : a[j] = b[j]

\* a run of digits without leading zeros is above SizeMaxDigits
AboveSizeMax(z) ==
  \/ Len(z) > Len(SizeMaxDigits)
  \/ Len(z) = Len(SizeMaxDigits) /\ DigitsGreater(z, SizeMaxDigits)

\* the run of digits does not fit std::size_t
Overflows(d) == AboveSizeMax(StripZeros(d))

RECURSIVE DecValue(_)
DecValue(d) ==
  IF d = <<>> THEN 0
  ELSE 10 * DecValue(SubSeq(d, 1, Len(d) - 1)) + DigitVal(d[Len(d)])

\* a run of digits that does not fit is not reported: the value wraps around
FromCharsResultWrapped(s, first, e) ==
  IF e = first
    THEN [ec |-> "invalid_argument", ptr |-> first, value |-> 0]
  ELSE IF Overflows(SubSeq(s, first, e - 1))
    THEN [ec |-> "ok", ptr |-> e, value |-> 0]
  ELSE [ec |-> "ok", ptr |-> e, value |-> DecValue(SubSeq(s, first, e - 1))]

\* the result of std::from_chars for the run of digits of s from first up
\* to e
FromCharsResult(s, first, e) ==
  IF e = first
    THEN [ec |-> "invalid_argument", ptr |-> first, value |-> 0]
  ELSE IF Overflows(SubSeq(s, first, e - 1))
    THEN [ec |-> "result_out_of_range", ptr |-> e, value |-> 0]
  ELSE [ec |-> "ok", ptr |-> e, value |-> DecValue(SubSeq(s, first, e - 1))]

\* std::from_chars(first, last, value) for std::size_t, base 10: no sign, no
\* whitespace; ptr is where the run of digits ends
from_chars(s, first) == FromCharsResult(s, first, DigitsEnd(s, first))

ErrorPrefix == "Invalid revision string component: "

\* the error names the whole text instead of the part from first on
ComponentResultWhole(s, first, last_rev, beyond, res) ==
  IF \/ res.ec /= "ok"
     \/ last_rev /\ res.ptr /= Len(s) + 1
     \/ ~last_rev /\ CharAt(s, res.ptr, beyond) /= "."
    THEN [ok |-> FALSE, value |-> 0, next |-> first, what |-> s]
    ELSE [ok |-> TRUE, value |-> res.value,
          next |-> res.ptr + (IF last_rev THEN 0 ELSE 1),
          what |-> <<>>]

\* the character after a component is not looked at
ComponentResultAnySeparator(s, first, last_rev, beyond, res) ==
  IF \/ res.ec /= "ok"
     \/ last_rev /\ res.ptr /= Len(s) + 1
    THEN [ok |-> FALSE, value |-> 0, next |-> first,
          what |-> Suffix(s, first)]
    ELSE [ok |-> TRUE, value |-> res.value,
          next |-> res.ptr + (IF last_rev THEN 0 ELSE 1),
          what |-> <<>>]

\* the test of the from_chars result res of a component and what follows:
\* the value and the next position, or the std::runtime_error thrown with
\* the text the message is formatted with, std::string_view(first, last)
ComponentResult(s, first, last_rev, beyond, res) ==
  IF \/ res.ec /= "ok"
     \/ last_rev /\ res.ptr /= Len(s) + 1
     \/ ~last_rev /\ CharAt(s, res.ptr, beyond) /= "."
    THEN [ok |-> FALSE, value |-> 0, next |-> first,
          what |-> Suffix(s, first)]
    ELSE [ok |-> TRUE, value |-> res.value,
          next |-> res.ptr + (IF last_rev THEN 0 ELSE 1),
          what |-> <<>>]

\* one component of the text s from position first; the view ends at
\* Len(s) + 1, where the character beyond is read when the digits reach it
extract_revision_component(s, first, last_rev, beyond) ==
  ComponentResult(s, first, last_rev, beyond, from_chars(s, first))

RevisionError(c) == [ok |-> FALSE, rev |-> Rev(0, 0, 0), what |-> c.what]

\* the third component is tied to the minor and the second to the patch
ExtractPatchSwapped(c1, c2, c3) ==
  IF ~c3.ok THEN RevisionError(c3)
  ELSE [ok |-> TRUE, rev |-> Rev(c1.value, c3.value, c2.value),
        what |-> <<>>]

\* std::tie(rev.patch, first) = extract_revision_component(first, last, true)
ExtractPatch(c1, c2, c3) ==
  IF ~c3.ok THEN RevisionError(c3)
  ELSE [ok |-> TRUE, rev |-> Rev(c1.value, c2.value, c3.value),
        what |-> <<>>]

\* std::tie(rev.minor, first) = extract_revision_component(first, last, false)
ExtractMinor(s, beyond, c1, c2) ==
  IF ~c2.ok THEN RevisionError(c2)
  ELSE ExtractPatch(c1, c2,
         extract_revision_component(s, c2.next, TRUE, beyond))

\* std::tie(rev.major, first) = extract_revision_component(first, last, false)
ExtractMajor(s, beyond, c1) ==
  IF ~c1.ok THEN RevisionError(c1)
  ELSE ExtractMinor(s, beyond, c1,
         extract_revision_component(s, c1.next, FALSE, beyond))

\* extract_revision(rev_str): the revision, or the error of the first
\* component that fails
extract_revision(s, beyond) ==
  ExtractMajor(s, beyond, extract_revision_component(s, 1, FALSE, beyond))

(***************************************************************************)
(* std::set<revision> and rapidjson objects                                *)
(***************************************************************************)
\* the candidates are kept in a vector, in the order of the keys
SetAppend(set, r) ==
  IF \E i \in 1..Len(set) : set[i] = r THEN set ELSE Append(set, r)

\* the candidates are kept in a std::multiset: equal versions stay apart
SetInsertMulti(set, r) ==
  LET n == Cardinality({i \in 1..Len(set) : ~RevLess(r, set[i])})
  IN  SubSeq(set, 1, n) \o <<r>> \o SubSeq(set, n + 1, Len(set))

\* std::set<revision>::insert: the sequence stays strictly ascending and an
\* equal element is not inserted again
SetInsert(set, r) ==
  IF \E i \in 1..Len(set) : set[i] = r THEN set
  ELSE LET n == Cardinality({i \in 1..Len(set) : RevLess(set[i], r)})
       IN  SubSeq(set, 1, n) \o <<r>> \o SubSeq(set, n + 1, Len(set))

\* upper_bound in the place of lower_bound: the first element greater than r
upper_bound(set, r) ==
  IF \E i \in 1..Len(set) : RevLess(r, set[i])
    THEN CHOOSE i \in 1..Len(set) :
           RevLess(r, set[i]) /\ \A j \in 1..(i - 1) : ~RevLess(r, set[j])
    ELSE Len(set) + 1

\* std::set<revision>::lower_bound: position of the first element that is
\* not less than r; Len(set) + 1 is end()
lower_bound(set, r) ==
  IF \E i \in 1..Len(set) : ~RevLess(set[i], r)
    THEN CHOOSE i \in 1..Len(set) :
           ~RevLess(set[i], r) /\ \A j \in 1..(i - 1) : RevLess(set[j], r)
    ELSE Len(set) + 1

\* no backward search: nothing is found below the lower bound
find_if_none(set, it, major) == 0

\* a search from begin() up to the lower bound: the lowest element found
find_if_forward(set, it, major) ==
  IF \E i \in 1..(it - 1) : set[i].major = major
    THEN CHOOSE i \in 1..(it - 1) :
           /\ set[i].major = major
           /\ \A j \in 1..(i - 1) : set[j].major /= major
    ELSE 0

\* the backward search starts one element too early and passes over the
\* immediate predecessor
find_if_reverse_skip(set, it, major) ==
  IF \E i \in 1..(it - 2) : set[i].major = major
    THEN CHOOSE i \in 1..(it - 2) :
           /\ set[i].major = major
           /\ \A j \in (i + 1)..(it - 2) : set[j].major /= major
    ELSE 0

\* std::find_if(std::make_reverse_iterator(it), set.rend(), major equal):
\* the elements before position it, from it - 1 down to 1; the position of
\* the first one found, 0 for rend()
find_if_reverse(set, it, major) ==
  IF \E i \in 1..(it - 1) : set[i].major = major
    THEN CHOOSE i \in 1..(it - 1) :
           /\ set[i].major = major
           /\ \A j \in (i + 1)..(it - 1) : set[j].major /= major
    ELSE 0

\* GenericObject::FindMember(const Ch*): position of the first member whose
\* name equals the C string, 0 for MemberEnd()
FindMember(obj, name) ==
  IF \E i \in 1..Len(obj) : obj[i].name = CStr(name)
    THEN CHOOSE i \in 1..Len(obj) :
           obj[i].name = CStr(name)
             /\ \A j \in 1..(i - 1) : obj[j].name /= CStr(name)
    ELSE 0

RECURSIVE ParseKeys(_, _, _)

\* a key that fails to parse is left out instead of throwing
InsertKeyLenient(obj, i, set, r) ==
  IF ~r.ok THEN ParseKeys(obj, i + 1, set)
  ELSE ParseKeys(obj, i + 1, SetInsert(set, r.rev))

\* the parsed name r of member i is inserted and the range goes on, or the
\* exception of extract_revision leaves the constructor
InsertKey(obj, i, set, r) ==
  IF ~r.ok THEN [ok |-> FALSE, set |-> <<>>, what |-> r.what]
  ELSE ParseKeys(obj, i + 1, SetInsert(set, r.rev))

\* the std::set constructor over the transformed member range: the names
\* of the members from position i on are parsed in storage order and
\* inserted; the first one that fails throws
ParseKeys(obj, i, set) ==
  IF i > Len(obj) THEN [ok |-> TRUE, set |-> set, what |-> <<>>]
  ELSE InsertKey(obj, i, set, extract_revision(CStr(obj[i].name), NUL))

\* with no candidate of the requested major, the nearest candidate of any
\* major is selected instead of MemberEnd()
SelectFromAnyMajor(requested, set, lb) ==
  IF \/ lb = Len(set) + 1
     \/ set[lb] /= requested /\ set[lb].major /= requested.major
    THEN IF \E i \in 1..(lb - 1) : set[i].major = requested.major
           THEN find_if_reverse(set, lb, requested.major)
           ELSE IF lb = Len(set) + 1 THEN Len(set) ELSE lb
    ELSE lb

\* the selection from the lower bound lb (revision_iter): lb itself, or the
\* result of the backward search; 0 when MemberEnd() is returned
SelectFrom(requested, set, lb) ==
  IF \/ lb = Len(set) + 1
     \/ set[lb] /= requested /\ set[lb].major /= requested.major
    THEN find_if_reverse(set, lb, requested.major)
    ELSE lb

\* the selection of resolve_revision over the set: the position selected,
\* 0 when it returns MemberEnd()
SelectRevision(requested, set) ==
  SelectFrom(requested, set, lower_bound(set, requested))

\* the member is looked up by the version its name parses to
FindRevisionMemberParsed(type_entry, rev) ==
  IF \E i \in 1..Len(type_entry) :
       extract_revision(CStr(type_entry[i].name), NUL).rev = rev
    THEN CHOOSE i \in 1..Len(type_entry) :
           extract_revision(CStr(type_entry[i].name), NUL).rev = rev
    ELSE 0

\* type_entry.GetObject().FindMember(revision_iter->as_string().c_str())
FindRevisionMember(type_entry, rev) == FindMember(type_entry, as_string(rev))

\* the end of resolve_revision: the member m found for the selected
\* revision is returned, or std::logic_error is thrown when there is none
ReturnMember(set, sel, m) ==
  IF m = 0
    THEN [kind |-> "logic_error", what |-> as_string(set[sel]),
          set |-> set, sel |-> sel, member |-> 0]
    ELSE [kind |-> "member", what |-> <<>>,
          set |-> set, sel |-> sel, member |-> m]

\* every revision of the set is looked up, and std::logic_error is thrown
\* for the first one that no member is named after, selected or not
LookupSelectedEveryKey(type_entry, set, sel) ==
  IF \E i \in 1..Len(set) : FindRevisionMember(type_entry, set[i]) = 0
    THEN [kind |-> "logic_error",
          what |-> as_string(set[CHOOSE i \in 1..Len(set) :
                     /\ FindRevisionMember(type_entry, set[i]) = 0
                     /\ \A j \in 1..(i - 1) :
                          FindRevisionMember(type_entry, set[j]) /= 0]),
          set |-> set, sel |-> sel, member |-> 0]
  ELSE IF sel = 0
    THEN [kind |-> "end", what |-> <<>>, set |-> set, sel |-> 0,
          member |-> 0]
  ELSE ReturnMember(set, sel, FindRevisionMember(type_entry, set[sel]))

\* resolve_revision after the selection: MemberEnd() when nothing was
\* selected, the lookup of the selected revision otherwise
LookupSelected(type_entry, set, sel) ==
  IF sel = 0
    THEN [kind |-> "end", what |-> <<>>, set |-> set, sel |-> 0,
          member |-> 0]
    ELSE ReturnMember(set, sel, FindRevisionMember(type_entry, set[sel]))

\* resolve_revision after the set was built, or the std::runtime_error of
\* a key that does not parse
ResolveParsed(requested, type_entry, parsed) ==
  IF ~parsed.ok
    THEN [kind |-> "runtime_error", what |-> parsed.what,
          set |-> <<>>, sel |-> 0, member |-> 0]
    ELSE LookupSelected(type_entry, parsed.set,
                        SelectRevision(requested, parsed.set))

\* resolve_revision(requested, type_entry)
resolve_revision(requested, type_entry) ==
  ResolveParsed(requested, type_entry, ParseKeys(type_entry, 1, <<>>))

(***************************************************************************)
(* Device tree and get_device                                              *)
(***************************************************************************)
\* a path that does not exist
Missing == [exists |-> FALSE, readable |-> FALSE, data |-> <<>>]

\* an existing file that opens for reading, with its content
File(data) == [exists |-> TRUE, readable |-> TRUE, data |-> data]

\* an existing file that cannot be opened for reading
Unreadable(data) == [exists |-> TRUE, readable |-> FALSE, data |-> data]

nullopt == [has_value |-> FALSE]

Some(v) == [has_value |-> TRUE, value |-> v]

\* the position of the first character of d that is not whitespace
WordBegin(d) ==
  IF \E i \in 1..Len(d) : ~IsSpace(d[i])
    THEN CHOOSE i \in 1..Len(d) :
           ~IsSpace(d[i]) /\ \A j \in 1..(i - 1) : IsSpace(d[j])
    ELSE Len(d) + 1

\* the characters of d from b up to the next whitespace or the end
WordFrom(d, b) ==
  IF \E i \in b..Len(d) : IsSpace(d[i])
    THEN SubSeq(d, b, (CHOOSE i \in b..Len(d) :
                         IsSpace(d[i]) /\ \A j \in b..(i - 1) : ~IsSpace(d[j]))
                        - 1)
    ELSE SubSeq(d, b, Len(d))

\* std::istream >> std::string: leading whitespace is skipped, then the
\* characters up to the next whitespace or the end of the file are read; a
\* stream that failed to open reads nothing
ReadWord(f) ==
  IF ~f.readable THEN <<>> ELSE WordFrom(f.data, WordBegin(f.data))

\* a short read is not noticed: the bytes that were read are decoded, the
\* rest of the buffer is zero
read_u32_partial(f) ==
  IF ~f.readable THEN nullopt
  ELSE Some((IF Len(f.data) >= 1 THEN f.data[1] ELSE 0) * 16777216
            + (IF Len(f.data) >= 2 THEN f.data[2] ELSE 0) * 65536
            + (IF Len(f.data) >= 3 THEN f.data[3] ELSE 0) * 256
            + (IF Len(f.data) >= 4 THEN f.data[4] ELSE 0))

\* the four bytes are taken in host order of a little-endian machine, ntohl
\* is left out
read_u32_host_order(f) ==
  IF ~f.readable THEN nullopt
  ELSE IF Len(f.data) < 4 THEN nullopt
  ELSE Some(f.data[4] * 16777216 + f.data[3] * 65536 + f.data[2] * 256
              + f.data[1])

\* read_u32: four bytes of the file, decoded by ntohl as a big-endian value
read_u32(f) ==
  IF ~f.readable THEN nullopt
  ELSE IF Len(f.data) < 4 THEN nullopt
  ELSE Some(f.data[1] * 16777216 + f.data[2] * 65536 + f.data[3] * 256
              + f.data[4])

\* get_device after the four files were found to exist: the type that was
\* read must not be empty and the three revision reads must have succeeded
DeviceOf(hw_type, rev_major, rev_minor, rev_patch) ==
  IF hw_type = <<>> THEN nullopt
  ELSE IF \/ ~rev_major.has_value \/ ~rev_minor.has_value
          \/ ~rev_patch.has_value
    THEN nullopt
  ELSE Some([hw_type |-> hw_type,
             hw_revision |-> Rev(rev_major.value, rev_minor.value,
                                 rev_patch.value)])

\* get_device(dt_base_path) over the four attribute files
get_device(tree) ==
  IF \/ ~tree.type.exists \/ ~tree.major.exists
     \/ ~tree.minor.exists \/ ~tree.patch.exists
    THEN nullopt
  ELSE DeviceOf(ReadWord(tree.type), read_u32(tree.major),
                read_u32(tree.minor), read_u32(tree.patch))

(***************************************************************************)
(* JSON files: read_document, validate_json, read_and_validate_json        *)
(***************************************************************************)
\* A JSON file is Missing or a File whose data is either the text of a
\* document that does not parse, NotJson, or [json |-> value].  The hardware
\* database value is an object of type members, each an object of revision
\* members, each a record that holds "pins" when the entry has that member.
NotJson == [json_error |-> TRUE]

Json(v) == File([json |-> v])

\* a file that does not parse is taken as an empty document
read_document_lenient(f) ==
  IF ~f.readable THEN [ok |-> FALSE, what |-> "Failed to open json file: "]
  ELSE IF f.data = NotJson THEN [ok |-> TRUE, doc |-> <<>>]
  ELSE [ok |-> TRUE, doc |-> f.data.json]

\* read_document<Flags>(path): the document, or the std::runtime_error
read_document(f) ==
  IF ~f.readable THEN [ok |-> FALSE, what |-> "Failed to open json file: "]
  ELSE IF f.data = NotJson
    THEN [ok |-> FALSE, what |-> "Failed to parse JSON file: "]
  ELSE [ok |-> TRUE, doc |-> f.data.json]

\* the schema of the hardware database: every revision entry of every type
\* entry requires "pins"
HwdbSchema == "hwdb-schema"

\* doc.Accept(validator) under the hardware database schema
Accept(doc, schema) ==
  \A t \in 1..Len(doc) : \A r \in 1..Len(doc[t].value) :
    "pins" \in DOMAIN doc[t].value[r].value

\* validate_json(doc, schema_doc): TRUE, or the std::runtime_error is thrown
validate_json(doc, schema) == Accept(doc, schema)

\* validate_json(doc, schema) on the documents that were read
ValidateRead(d, s) ==
  IF ~d.ok THEN [ok |-> FALSE, what |-> d.what,
                 trace |-> <<"read_document(schema)", "read_document(hwdb)">>]
  ELSE IF ~validate_json(d.doc, s.doc)
    THEN [ok |-> FALSE, what |-> "JSON does not conform to schema: ",
          trace |-> <<"read_document(schema)", "read_document(hwdb)",
                      "validate_json">>]
    ELSE [ok |-> TRUE, doc |-> d.doc,
          trace |-> <<"read_document(schema)", "read_document(hwdb)",
                      "validate_json">>]

\* the document is read once the schema s was read without an exception
ReadDocumentAfterSchema(json, s) ==
  IF ~s.ok THEN [ok |-> FALSE, what |-> s.what,
                 trace |-> <<"read_document(schema)">>]
  ELSE ValidateRead(read_document(json), s)

\* read_and_validate_json<Flags>(json_path, schema_path): the schema is read
\* first, then the document, then the document is validated
read_and_validate_json(json, schema) ==
  ReadDocumentAfterSchema(json, read_document(schema))

(***************************************************************************)
(* pin, pin_compare, pin_set                                               *)
(***************************************************************************)
\* the characters of the model in ascending order of their code
Ascii ==
  <<NUL, "\t", "\n", "\r", " ", "+", "-", ".",
    "0", "1", "2", "3", "4", "5", "6", "7", "8", "9",
    "A", "B", "C", "a", "b", "c", "m", "o", "x">>

Code(c) == CHOOSE i \in 1..Len(Ascii) : Ascii[i] = c

\* std::string operator<: lexicographic by character code, a proper prefix
\* is less
StrLess(a, b) ==
  \/ \E i \in 1..Len(a) :
       /\ i <= Len(b)
       /\ Code(a[i]) < Code(b[i])
       /\ \A j \in 1..(i - 1) : a[j] = b[j]
  \/ Len(a) < Len(b) /\ \A j \in 1..Len(a) : a[j] = b[j]

\* pin_compare::operator()(const pin &, const pin &)
pin_compare(a, b) == StrLess(a.name, b.name)

\* the pins are kept in a vector, in the order of the database
PinSetAppend(set, p) == Append(set, p)

\* pin_set::insert: ascending by name, a pin of an equivalent name is not
\* inserted again
PinSetInsert(set, p) ==
  IF \E i \in 1..Len(set) : ~pin_compare(set[i], p) /\ ~pin_compare(p, set[i])
    THEN set
  ELSE LET n == Cardinality({i \in 1..Len(set) : pin_compare(set[i], p)})
       IN  SubSeq(set, 1, n) \o <<p>> \o SubSeq(set, n + 1, Len(set))

RECURSIVE CollectPinSet(_, _, _)
\* the pin_set built from the transformed range of the members of "pins"
CollectPinSet(pins, i, set) ==
  IF i > Len(pins) THEN set
  ELSE CollectPinSet(pins, i + 1,
         PinSetInsert(set, [name |-> CStr(pins[i].name),
                            number |-> pins[i].value.value,
                            description |-> pins[i].value.description]))

(***************************************************************************)
(* Inputs of the checked instance                                          *)
(***************************************************************************)
TypeM == <<"m">>

TypeO == <<"o">>

CanonCount == (MaxMajor + 1) * (MaxMinor + 1) * (MaxPatch + 1)

\* the revisions of the instance, numbered with the major changing fastest,
\* so that the storage order of the keys is not the order of the revisions
CanonVersion(i) ==
  Rev(i % (MaxMajor + 1),
      (i \div (MaxMajor + 1)) % (MaxMinor + 1),
      i \div ((MaxMajor + 1) * (MaxMinor + 1)))

Versions == {CanonVersion(i) : i \in 0..(CanonCount - 1)}

\* keys that parse but are not what as_string gives back
NonCanonList ==
  << <<"0">> \o as_string(Rev(1, 0, 0)),
     <<"0">> \o as_string(Rev(MaxMajor, MaxMinor, MaxPatch)) >>

\* keys that do not parse: "x.0.0", "1.x.0", "1.0.x", "1.0"
MalformedList ==
  << <<"x", ".", "0", ".", "0">>, <<"1", ".", "x", ".", "0">>,
     <<"1", ".", "0", ".", "x">>, <<"1", ".", "0">> >>

KeyList ==
  NonCanonList \o [i \in 1..CanonCount |-> as_string(CanonVersion(i - 1))]
    \o MalformedList

KeyIndex(key) == CHOOSE i \in 1..Len(KeyList) : KeyList[i] = key

\* the "pins" object stored under a revision key: two pins, stored in
\* descending order of name, that tell the key they belong to
PinsOf(key) ==
  << [name |-> <<"B">>,
      value |-> [value |-> KeyIndex(key), description |-> key]],
     [name |-> <<"A">>,
      value |-> [value |-> 100 + KeyIndex(key), description |-> key]] >>

Member(key) == [name |-> key, value |-> [pins |-> PinsOf(key)]]

RECURSIVE IndexSeqs(_)
\* the strictly ascending sequences of at most n positions of KeyList
IndexSeqs(n) ==
  IF n = 0 THEN {<<>>}
  ELSE LET prev == IndexSeqs(n - 1) IN
         prev \cup
         UNION { {Append(s, k) :
                    k \in (IF s = <<>> THEN 1 ELSE s[Len(s)] + 1)
                            ..Len(KeyList)} :
                 s \in {p \in prev : Len(p) = n - 1} }

\* the type entries of the instance: at most MaxKeys revision members
Buckets ==
  {[i \in 1..Len(s) |-> Member(KeyList[s[i]])] : s \in IndexSeqs(MaxKeys)}

\* the four bytes of a big-endian 32-bit value
U32(v) ==
  <<v \div 16777216, (v \div 65536) % 256, (v \div 256) % 256, v % 256>>

Tree(type, ma, mi, pa) ==
  [type |-> type, major |-> ma, minor |-> mi, patch |-> pa]

GoodTree(type, r) ==
  Tree(File(type), File(U32(r.major)), File(U32(r.minor)),
       File(U32(r.patch)))

\* device trees that hold a device of type "m"
TreesM == {GoodTree(TypeM, r) : r \in Versions}

\* device trees that hold a device: the type as plain text, with a trailing
\* NUL and with a trailing newline
GoodTrees ==
  {GoodTree(t, r) :
     t \in {TypeM, TypeO, TypeM \o <<NUL>>, TypeM \o <<"\n">>},
     r \in Versions}

\* device trees that hold no device
BadTrees ==
  { Tree(Missing, Missing, Missing, Missing),
    Tree(File(<<>>), File(U32(1)), File(U32(0)), File(U32(0))),
    Tree(File(<<" ", "\n">>), File(U32(1)), File(U32(0)), File(U32(0))),
    Tree(File(TypeM), File(<<0, 0, 1>>), File(U32(0)), File(U32(0))),
    Tree(File(TypeM), File(U32(1)), Unreadable(U32(0)), File(U32(0))),
    Tree(File(TypeM), File(U32(1)), File(U32(0)), Missing) }

SchemaFiles == {Missing, File(NotJson), Json(HwdbSchema)}

K100 == as_string(Rev(1, 0, 0))

\* a few database files: missing, not JSON, not conforming (a revision
\* entry without "pins"), and conforming documents
SomeHwdbFiles ==
  { Missing, File(NotJson),
    Json(<< [name |-> TypeM,
             value |-> <<[name |-> K100, value |-> [other |-> <<>>]]>>] >>),
    Json(<<>>),
    Json(<< [name |-> TypeM, value |-> <<>>] >>),
    Json(<< [name |-> TypeM, value |-> <<Member(K100)>>] >>),
    Json(<< [name |-> TypeM,
             value |-> <<Member(K100), Member(MalformedList[1])>>] >>),
    Json(<< [name |-> TypeO, value |-> <<Member(MalformedList[2])>>],
            [name |-> TypeM, value |-> <<Member(K100)>>] >>) }

\* the database files that hold one type entry "m" with any of the buckets
BucketHwdbFiles == {Json(<< [name |-> TypeM, value |-> b] >>) : b \in Buckets}

(***************************************************************************)
(* er::hwinfo::get                                                         *)
(***************************************************************************)
NoError == [msg |-> "", arg |-> <<>>]

\* no text is being parsed
NoParse ==
  /\ str = <<>>
  /\ extracted = nullopt
  /\ formatted = <<>>
  /\ rest = <<>>

\* get is not called from main
NoMain ==
  /\ main_pc = "none"
  /\ dev = nullopt
  /\ cout = <<>>
  /\ exit_code = -1

\* the first call of get
FirstCall ==
  /\ ncalls = 1
  /\ previous = nullopt

\* there is no second query
NoQuery2 ==
  /\ dt2 = Tree(Missing, Missing, Missing, Missing)
  /\ q2 = nullopt

Init ==
  /\ \/ /\ dt \in BadTrees \cup GoodTrees
        /\ schemaFile \in SchemaFiles
        /\ hwdbFile \in SomeHwdbFiles
     \/ /\ dt \in TreesM
        /\ schemaFile = Json(HwdbSchema)
        /\ hwdbFile \in BucketHwdbFiles
  /\ pc = "get_device"
  /\ device_opt = nullopt
  /\ hwdb = <<>>
  /\ type_iter = 0
  /\ revisions = <<>>
  /\ revision_iter = 0
  /\ hwrevision_iter = 0
  /\ calls = <<>>
  /\ outcome = "running"
  /\ info = nullopt
  /\ error = NoError
  /\ NoParse
  /\ NoMain
  /\ FirstCall
  /\ NoQuery2

files == <<dt, schemaFile, hwdbFile>>

\* the database is loaded before the device is read
LoadedFirst(r) ==
  /\ calls' = r.trace \o <<"get_device">>
  /\ device_opt' = get_device(dt)
  /\ IF ~r.ok
       THEN /\ outcome' = "runtime_error"
            /\ error' = [msg |-> r.what, arg |-> <<>>]
            /\ pc' = "done"
       ELSE /\ error' = error
            /\ IF device_opt'.has_value
                 THEN pc' = "read_and_validate_json" /\ outcome' = outcome
                 ELSE pc' = "done" /\ outcome' = "nullopt"

GetDeviceAfterLoad ==
  /\ pc = "get_device"
  /\ LoadedFirst(read_and_validate_json(hwdbFile, schemaFile))
  /\ UNCHANGED <<files, other, hwdb, type_iter, revisions, revision_iter,
                 hwrevision_iter, info>>

\* the result of the call before is kept and returned again
GetDeviceCached ==
  /\ pc = "get_device"
  /\ device_opt' = get_device(dt)
  /\ calls' = Append(calls, "get_device")
  /\ IF previous.has_value
       THEN /\ pc' = "done"
            /\ outcome' = previous.value.outcome
            /\ info' = previous.value.info
            /\ error' = previous.value.error
       ELSE /\ IF device_opt'.has_value
                 THEN pc' = "read_and_validate_json" /\ outcome' = outcome
                 ELSE pc' = "done" /\ outcome' = "nullopt"
            /\ UNCHANGED <<info, error>>
  /\ UNCHANGED <<files, other, hwdb, type_iter, revisions, revision_iter,
                 hwrevision_iter>>

\* auto device_opt = impl::get_device(dt_base_path); absent ends the query
GetDevice ==
  /\ pc = "get_device"
  /\ device_opt' = get_device(dt)
  /\ calls' = Append(calls, "get_device")
  /\ IF device_opt'.has_value
       THEN pc' = "read_and_validate_json" /\ outcome' = outcome
       ELSE pc' = "done" /\ outcome' = "nullopt"
  /\ UNCHANGED <<files, other, hwdb, type_iter, revisions, revision_iter,
                 hwrevision_iter, info, error>>

\* what get does with the result r of read_and_validate_json: the document
\* becomes hwdb, or the exception leaves get
Loaded(r) ==
  /\ calls' = calls \o r.trace
  /\ IF r.ok
       THEN /\ hwdb' = r.doc
            /\ pc' = "find_type"
            /\ UNCHANGED <<outcome, error>>
       ELSE /\ outcome' = "runtime_error"
            /\ error' = [msg |-> r.what, arg |-> <<>>]
            /\ pc' = "done"
            /\ UNCHANGED hwdb

\* rapidjson::Document hwdb = impl::read_and_validate_json<flags>(...)
ReadAndValidateJson ==
  /\ pc = "read_and_validate_json"
  /\ Loaded(read_and_validate_json(hwdbFile, schemaFile))
  /\ UNCHANGED <<files, other, device_opt, type_iter, revisions, revision_iter,
                 hwrevision_iter, info>>

\* hwdb.FindMember(device_opt->hw_type.c_str()); a type that is not there
\* gives info with empty pins
FindType ==
  /\ pc = "find_type"
  /\ type_iter' = FindMember(hwdb, device_opt.value.hw_type)
  /\ IF type_iter' = 0
       THEN /\ info' = Some([dev |-> device_opt.value, pins |-> <<>>])
            /\ outcome' = "info"
            /\ pc' = "done"
       ELSE /\ pc' = "resolve_revision"
            /\ UNCHANGED <<info, outcome>>
  /\ UNCHANGED <<files, other, device_opt, hwdb, revisions, revision_iter,
                 hwrevision_iter, calls, error>>

\* what get does with the result r of resolve_revision
Resolved(r) ==
  /\ calls' = Append(calls, "resolve_revision")
  /\ revisions' = r.set
  /\ revision_iter' = r.sel
  /\ hwrevision_iter' = r.member
  /\ CASE r.kind = "runtime_error" ->
            /\ outcome' = "runtime_error"
            /\ error' = [msg |-> ErrorPrefix, arg |-> r.what]
            /\ pc' = "done"
            /\ UNCHANGED info
       [] r.kind = "logic_error" ->
            /\ outcome' = "logic_error"
            /\ error' = [msg |-> "Inconsistent hardware database: ",
                         arg |-> r.what]
            /\ pc' = "done"
            /\ UNCHANGED info
       [] r.kind = "end" ->
            /\ info' = Some([dev |-> device_opt.value, pins |-> <<>>])
            /\ outcome' = "info"
            /\ pc' = "done"
            /\ UNCHANGED error
       [] r.kind = "member" ->
            /\ pc' = "collect_pins"
            /\ UNCHANGED <<info, outcome, error>>

RECURSIVE AllRevisionEntries(_, _)
\* the revision entries of the types of the database from position i on
AllRevisionEntries(db, i) ==
  IF i > Len(db) THEN <<>>
  ELSE db[i].value \o AllRevisionEntries(db, i + 1)

\* the keys of the buckets of every type are parsed, not only those of the
\* type of the device
ResolveRevisionAllTypes ==
  /\ pc = "resolve_revision"
  /\ Resolved(resolve_revision(device_opt.value.hw_revision,
                               AllRevisionEntries(hwdb, 1)))
  /\ UNCHANGED <<files, other, device_opt, hwdb, type_iter>>

\* impl::resolve_revision(device_opt->hw_revision, type_entry); MemberEnd
\* gives info with empty pins, an exception leaves get
ResolveRevision ==
  /\ pc = "resolve_revision"
  /\ Resolved(resolve_revision(device_opt.value.hw_revision,
                               hwdb[type_iter].value))
  /\ UNCHANGED <<files, other, device_opt, hwdb, type_iter>>

\* the pins are taken from the first revision entry of the type
CollectPinsFirstEntry ==
  /\ pc = "collect_pins"
  /\ info' = Some([dev |-> device_opt.value,
                   pins |-> CollectPinSet(
                     hwdb[type_iter].value[1].value.pins, 1, <<>>)])
  /\ outcome' = "info"
  /\ pc' = "done"
  /\ UNCHANGED <<files, other, device_opt, hwdb, type_iter, revisions,
                 revision_iter, hwrevision_iter, calls, error>>

\* the result tells the revision of the database that was selected instead
\* of the revision of the device
CollectPinsSelectedRevision ==
  /\ pc = "collect_pins"
  /\ info' = Some([dev |-> [hw_type |-> device_opt.value.hw_type,
                            hw_revision |-> revisions[revision_iter]],
                   pins |-> CollectPinSet(
                     hwdb[type_iter].value[hwrevision_iter].value.pins,
                     1, <<>>)])
  /\ outcome' = "info"
  /\ pc' = "done"
  /\ UNCHANGED <<files, other, device_opt, hwdb, type_iter, revisions,
                 revision_iter, hwrevision_iter, calls, error>>

\* the pins of hwrev_entry["pins"] collected into the pin_set of the result
CollectPins ==
  /\ pc = "collect_pins"
  /\ info' = Some([dev |-> device_opt.value,
                   pins |-> CollectPinSet(
                     hwdb[type_iter].value[hwrevision_iter].value.pins,
                     1, <<>>)])
  /\ outcome' = "info"
  /\ pc' = "done"
  /\ UNCHANGED <<files, other, device_opt, hwdb, type_iter, revisions,
                 revision_iter, hwrevision_iter, calls, error>>

Next ==
  \/ GetDevice
  \/ ReadAndValidateJson
  \/ FindType
  \/ ResolveRevision
  \/ CollectPins

Spec == Init /\ [][Next]_vars

(***************************************************************************)
(* Properties                                                              *)
(***************************************************************************)
Called(f) == \E i \in 1..Len(calls) : calls[i] = f

\* resolve_revision was entered and built its set of candidates
Parsed == Called("resolve_revision") /\ outcome /= "runtime_error"

\* the arguments resolve_revision was called with
Requested == device_opt.value.hw_revision

TypeEntry == hwdb[type_iter].value

\* the candidate versions: what the keys of the type entry parse to
CandidateSet ==
  {extract_revision(CStr(TypeEntry[i].name), NUL).rev :
     i \in 1..Len(TypeEntry)}

NoMatch == [no_match |-> TRUE]

\* the version resolve_revision selected
SelectedVersion ==
  IF revision_iter = 0 THEN NoMatch ELSE revisions[revision_iter]

RevLeq(a, b) == a = b \/ RevLess(a, b)

Smallest(S) == CHOOSE x \in S : \A y \in S : RevLeq(x, y)

Highest(S) == CHOOSE x \in S : \A y \in S : RevLeq(y, x)

\* the candidates of the requested major at or above, and below, requested
Forward(req, C) == {c \in C : c.major = req.major /\ RevLeq(req, c)}

Backward(req, C) == {c \in C : c.major = req.major /\ RevLess(c, req)}

\* C1: resolve_revision selects the smallest candidate >= requested of the
\* requested major if there is one, otherwise the highest candidate <
\* requested of the requested major, otherwise it reports no match.
C1_Selection ==
  Parsed =>
    SelectedVersion =
      IF Forward(Requested, CandidateSet) /= {}
        THEN Smallest(Forward(Requested, CandidateSet))
      ELSE IF Backward(Requested, CandidateSet) /= {}
        THEN Highest(Backward(Requested, CandidateSet))
      ELSE NoMatch

\* a forward match that is not exact, with requested below every candidate
\* and candidates of another major in the set
C1_Witness ==
  /\ Parsed
  /\ revision_iter /= 0
  /\ RevLess(Requested, SelectedVersion)
  /\ \A c \in CandidateSet : RevLess(Requested, c)
  /\ \E c \in CandidateSet : c.major /= Requested.major
  /\ Cardinality(Forward(Requested, CandidateSet)) >= 2

\* C2: resolve_revision reports no match exactly when no candidate has the
\* requested major, and a selected version is a candidate of the requested
\* major.
C2_NoMatchIff ==
  Parsed =>
    /\ (revision_iter = 0 /\ hwrevision_iter = 0 /\ outcome = "info")
         <=> (\A c \in CandidateSet : c.major /= Requested.major)
    /\ revision_iter /= 0 =>
         /\ SelectedVersion \in CandidateSet
         /\ SelectedVersion.major = Requested.major

\* no match although there are candidates below and above requested
C2_Witness ==
  /\ Parsed
  /\ revision_iter = 0
  /\ \E c \in CandidateSet : RevLess(c, Requested)
  /\ \E c \in CandidateSet : RevLess(Requested, c)

\* C3: a requested version that is a candidate is the version selected,
\* whatever candidates of the same major are below or above it.
C3_ExactMatch ==
  (Parsed /\ Requested \in CandidateSet) => SelectedVersion = Requested

\* an exact match with candidates of the same major on both sides
C3_Witness ==
  /\ Parsed
  /\ Requested \in CandidateSet
  /\ SelectedVersion = Requested
  /\ \E c \in CandidateSet : c.major = Requested.major /\ RevLess(c, Requested)
  /\ \E c \in CandidateSet : c.major = Requested.major /\ RevLess(Requested, c)

\* C4: with no candidate >= requested of the requested major and at least
\* one candidate below requested of that major, the highest such candidate
\* is selected.
C4_BackwardSearch ==
  (/\ Parsed
   /\ Forward(Requested, CandidateSet) = {}
   /\ Backward(Requested, CandidateSet) /= {})
    => /\ revision_iter /= 0
       /\ SelectedVersion = Highest(Backward(Requested, CandidateSet))

\* the lower bound is a candidate of another major and two candidates of the
\* requested major are below requested
C4_Witness ==
  /\ Parsed
  /\ \E c \in CandidateSet : RevLess(Requested, c)
  /\ Forward(Requested, CandidateSet) = {}
  /\ Cardinality(Backward(Requested, CandidateSet)) >= 2
  /\ revision_iter /= 0
  /\ SelectedVersion = Highest(Backward(Requested, CandidateSet))

\* the lower bound is end() and a candidate of the requested major is below
C4_WitnessEnd ==
  /\ Parsed
  /\ \A c \in CandidateSet : RevLess(c, Requested)
  /\ Backward(Requested, CandidateSet) /= {}
  /\ revision_iter /= 0

\* the device tree holds a device, and the type it holds as a C string
DevicePresent == dt \in GoodTrees

DtType == CStr(ReadWord(dt.type))

\* the schema file and the database file cannot be used
SchemaFails == ~schemaFile.readable \/ schemaFile.data = NotJson

NotConforming(doc) ==
  \E t \in 1..Len(doc) : \E r \in 1..Len(doc[t].value) :
    "pins" \notin DOMAIN doc[t].value[r].value

HwdbFails ==
  \/ ~hwdbFile.readable
  \/ hwdbFile.data = NotJson
  \/ NotConforming(hwdbFile.data.json)

\* the database loads and validates
DbValid == ~SchemaFails /\ ~HwdbFails

DbDoc == hwdbFile.data.json

TypeKnown == \E t \in 1..Len(DbDoc) : DbDoc[t].name = DtType

\* the bucket of the device's type: the first type entry of that name
Bucket ==
  DbDoc[CHOOSE t \in 1..Len(DbDoc) :
          DbDoc[t].name = DtType
            /\ \A u \in 1..(t - 1) : DbDoc[u].name /= DtType].value

BucketKeys == {Bucket[i].name : i \in 1..Len(Bucket)}

WellFormed(key) == extract_revision(key, NUL).ok

\* the key starts with a number that is the major m
SharesMajor(key, m) ==
  from_chars(key, 1).ec = "ok" /\ from_chars(key, 1).value = m

DtMajor == read_u32(dt.major).value

DtRevision ==
  Rev(read_u32(dt.major).value, read_u32(dt.minor).value,
      read_u32(dt.patch).value)

EmptyPinsResult ==
  /\ outcome = "info"
  /\ info.has_value
  /\ info.value.pins = <<>>
  /\ error = NoError

\* C5 as stated: with a device and a database that loads and validates, get
\* returns a present result with empty pins and no error when the type is
\* not a key of the database, the bucket has no keys, or no key of the
\* bucket shares the device's major.
C5_AsStated ==
  (/\ pc = "done" /\ DevicePresent /\ DbValid
   /\ \/ ~TypeKnown
      \/ TypeKnown /\ BucketKeys = {}
      \/ TypeKnown /\ \A k \in BucketKeys : ~SharesMajor(k, DtMajor))
    => EmptyPinsResult

\* C5: with a device and a database that loads and validates, get returns a
\* present result with empty pins and no error when the type is not a key
\* of the database, the bucket has no keys, or every key of the bucket is
\* well-formed and none shares the device's major.
C5_EmptyPins ==
  (/\ pc = "done" /\ DevicePresent /\ DbValid
   /\ \/ ~TypeKnown
      \/ TypeKnown /\ BucketKeys = {}
      \/ /\ TypeKnown
         /\ \A k \in BucketKeys : WellFormed(k) /\ ~SharesMajor(k, DtMajor))
    => EmptyPinsResult

\* keys of a lower and of a higher major only, and the result has empty pins
C5_Witness ==
  /\ pc = "done" /\ DevicePresent /\ DbValid /\ TypeKnown
  /\ \A k \in BucketKeys : WellFormed(k) /\ ~SharesMajor(k, DtMajor)
  /\ \E k \in BucketKeys : extract_revision(k, NUL).rev.major < DtMajor
  /\ \E k \in BucketKeys : extract_revision(k, NUL).rev.major > DtMajor
  /\ EmptyPinsResult

\* the type is not a key of the database
C5_WitnessNoType ==
  pc = "done" /\ DevicePresent /\ DbValid /\ ~TypeKnown /\ EmptyPinsResult

\* the bucket has no keys
C5_WitnessNoKeys ==
  /\ pc = "done" /\ DevicePresent /\ DbValid /\ TypeKnown
  /\ BucketKeys = {} /\ EmptyPinsResult

\* C6: a malformed key in the bucket of the device's type makes the query
\* end in an error and never in a result, also when the bucket holds a
\* well-formed key that matches the device revision exactly.
C6_MalformedKeyAborts ==
  (/\ DevicePresent /\ DbValid /\ TypeKnown
   /\ \E k \in BucketKeys : ~WellFormed(k))
    => /\ ~info.has_value
       /\ outcome \in {"running", "runtime_error"}
       /\ pc /= "collect_pins"
       /\ pc = "done" => outcome = "runtime_error" /\ error.msg = ErrorPrefix

\* the query ended in the error although the bucket holds the key of the
\* device revision
C6_Witness ==
  /\ pc = "done" /\ DevicePresent /\ DbValid /\ TypeKnown
  /\ \E k \in BucketKeys : ~WellFormed(k)
  /\ as_string(DtRevision) \in BucketKeys
  /\ outcome = "runtime_error"

\* the key whose parsing failed: the first malformed key in storage order
OffendingKey ==
  Bucket[CHOOSE i \in 1..Len(Bucket) :
           ~WellFormed(Bucket[i].name)
             /\ \A j \in 1..(i - 1) : WellFormed(Bucket[j].name)].name

Contains(t, k) ==
  \E i \in 0..(Len(t) - Len(k)) : SubSeq(t, i + 1, i + Len(k)) = k

ParseFailed ==
  pc = "done" /\ outcome = "runtime_error" /\ Called("resolve_revision")

\* C7 as stated: the error of a key that fails parsing holds the full text
\* of the key, whichever component fails.
C7_AsStated == ParseFailed => Contains(error.arg, OffendingKey)

\* t is a run of digits followed by "."
IsGroup(t) ==
  /\ Len(t) >= 2
  /\ t[Len(t)] = "."
  /\ \A j \in 1..(Len(t) - 1) : IsDigit(t[j])
  /\ ~Overflows(SubSeq(t, 1, Len(t) - 1))

\* the text before position i is made of at most two such groups
GroupsBefore(key, i) ==
  \/ i = 1
  \/ IsGroup(SubSeq(key, 1, i - 1))
  \/ \E a \in 2..(i - 1) :
       IsGroup(SubSeq(key, 1, a - 1)) /\ IsGroup(SubSeq(key, a, i - 1))

\* where the component that fails starts: after the components that parse
FailStart(key) ==
  CHOOSE i \in 1..(Len(key) + 1) :
    /\ GroupsBefore(key, i)
    /\ \A j \in (i + 1)..(Len(key) + 1) : ~GroupsBefore(key, j)

\* C7: the error of a key that fails parsing holds the part of the key from
\* the first character of the failing component to the end of the key; it
\* is the full key only when the major component is the one that fails.
C7_ErrorNamesRest ==
  ParseFailed =>
    /\ error.msg = ErrorPrefix
    /\ error.arg = Suffix(OffendingKey, FailStart(OffendingKey))
    /\ error.arg = OffendingKey <=> FailStart(OffendingKey) = 1

\* the third component of the key failed and the error holds that component
\* only
C7_Witness ==
  /\ ParseFailed
  /\ FailStart(OffendingKey) = 5
  /\ Len(error.arg) = 1
  /\ ~Contains(error.arg, OffendingKey)

\* the first component failed and the error holds the whole key
C7_WitnessMajor == ParseFailed /\ error.arg = OffendingKey

\* C8: the bucket is looked up under the canonical string of the selected
\* version; when no key has exactly that spelling the query ends in the
\* internal-consistency error and never in a present result.
C8_CanonicalLookup ==
  Parsed =>
    /\ hwrevision_iter /= 0 =>
         /\ revision_iter /= 0
         /\ TypeEntry[hwrevision_iter].name = as_string(SelectedVersion)
    /\ (/\ revision_iter /= 0
        /\ \A i \in 1..Len(TypeEntry) :
             TypeEntry[i].name /= as_string(SelectedVersion))
         => /\ pc = "done"
            /\ outcome = "logic_error"
            /\ ~info.has_value

\* the selected version comes from a key of another spelling only
C8_Witness ==
  /\ Parsed
  /\ revision_iter /= 0
  /\ \E i \in 1..Len(TypeEntry) :
       /\ TypeEntry[i].name /= as_string(SelectedVersion)
       /\ extract_revision(TypeEntry[i].name, NUL).rev = SelectedVersion
  /\ outcome = "logic_error"

\* C9: when the device tree yields no device, get returns the absent result
\* without an error and without loading the schema or the database,
\* whatever state these files are in.
C9_AbsentDevice ==
  dt \in BadTrees =>
    /\ \A i \in 1..Len(calls) : calls[i] = "get_device"
    /\ hwdb = <<>>
    /\ error = NoError
    /\ ~info.has_value
    /\ outcome \in {"running", "nullopt"}
    /\ pc /= "get_device" => pc = "done" /\ outcome = "nullopt"

\* the absent result, with a schema that is missing and a database that is
\* not JSON
C9_Witness ==
  /\ dt \in BadTrees
  /\ pc = "done"
  /\ outcome = "nullopt"
  /\ schemaFile = Missing
  /\ hwdbFile = File(NotJson)

\* the absent result, with a database that holds a malformed key
C9_WitnessMalformed ==
  /\ dt \in BadTrees
  /\ pc = "done"
  /\ outcome = "nullopt"
  /\ DbValid
  /\ \E t \in 1..Len(DbDoc) : \E r \in 1..Len(DbDoc[t].value) :
       ~WellFormed(DbDoc[t].value[r].name)

\* C10: with a device present, get ends in a runtime error and no result
\* when the schema or the database cannot be opened or parsed or the
\* database does not conform, and revision resolution is never started.
C10_LoadFailure ==
  (DevicePresent /\ (SchemaFails \/ HwdbFails)) =>
    /\ ~Called("resolve_revision")
    /\ pc \notin {"find_type", "resolve_revision", "collect_pins"}
    /\ ~info.has_value
    /\ outcome \in {"running", "runtime_error"}
    /\ pc = "done" => outcome = "runtime_error"

\* the database does not conform to the schema and the query ended in the
\* error after validate_json
C10_Witness ==
  /\ DevicePresent
  /\ ~SchemaFails
  /\ hwdbFile.readable /\ hwdbFile.data /= NotJson
  /\ NotConforming(hwdbFile.data.json)
  /\ pc = "done"
  /\ outcome = "runtime_error"
  /\ Called("validate_json")

\* the schema is not JSON, the database is fine
C10_WitnessSchema ==
  /\ DevicePresent
  /\ schemaFile = File(NotJson)
  /\ ~HwdbFails
  /\ pc = "done"
  /\ outcome = "runtime_error"

\* the database file is missing
C10_WitnessMissing ==
  /\ DevicePresent
  /\ ~SchemaFails
  /\ hwdbFile = Missing
  /\ pc = "done"
  /\ outcome = "runtime_error"

(***************************************************************************)
(* get_device over every state of the four attribute files                 *)
(***************************************************************************)
\* the states of the type file: missing, not readable, empty, whitespace
\* only, and a word with or without whitespace or a NUL around it
TypeFiles ==
  { Missing, Unreadable(TypeM), File(<<>>), File(<<" ">>),
    File(<<"\n", "\t">>), File(TypeM), File(TypeO \o <<NUL>>),
    File(<<" ">> \o TypeM \o <<"\n">>) }

\* the states of a revision file: missing, not readable, shorter than four
\* bytes, four bytes, and more than four bytes
RevisionFiles ==
  { Missing, Unreadable(U32(1)), File(<<>>), File(<<0, 0, 1>>),
    File(<<0, 0, 0, 0>>), File(<<0, 0, 0, 1>>), File(<<0, 0, 1, 2>>),
    File(<<1, 2, 3, 4>>), File(<<127, 255, 255, 255>>),
    File(<<0, 0, 0, 1, 9>>) }

DeviceTrees ==
  {Tree(t, ma, mi, pa) :
     t \in TypeFiles, ma \in RevisionFiles, mi \in RevisionFiles,
     pa \in RevisionFiles}

\* the locals of get when it is entered
Entry ==
  /\ pc = "get_device"
  /\ device_opt = nullopt
  /\ hwdb = <<>>
  /\ type_iter = 0
  /\ revisions = <<>>
  /\ revision_iter = 0
  /\ hwrevision_iter = 0
  /\ calls = <<>>
  /\ outcome = "running"
  /\ info = nullopt
  /\ error = NoError

InitDevice ==
  /\ dt \in DeviceTrees
  /\ schemaFile = Json(HwdbSchema)
  /\ hwdbFile = Json(<< [name |-> TypeM, value |-> <<Member(K100)>>] >>)
  /\ Entry
  /\ NoParse
  /\ NoMain
  /\ FirstCall
  /\ NoQuery2

SpecDevice == InitDevice /\ [][Next]_vars

\* the four attribute files under effective-range,hardware
AttributeFile(n) ==
  CASE n = 0 -> dt.type
    [] n = 1 -> dt.major
    [] n = 2 -> dt.minor
    [] n = 3 -> dt.patch

\* empty or whitespace only
Blank(d) == \A i \in 1..Len(d) : IsSpace(d[i])

\* one of the cases in which no device is to be returned
NoDeviceCase ==
  \/ \E n \in 0..3 : ~AttributeFile(n).exists
  \/ Blank(dt.type.data)
  \/ \E n \in 1..3 :
       ~AttributeFile(n).readable \/ Len(AttributeFile(n).data) < 4

\* C11: once get_device has returned, the device is absent if one of the
\* four attribute files is missing, the type file is empty or whitespace
\* only, or a revision file is unreadable or shorter than four bytes; a
\* device is present only if the type was read and is not empty and each
\* revision file gave its four bytes
C11_AbsentDevice ==
  Called("get_device") =>
    /\ NoDeviceCase => ~device_opt.has_value
    /\ device_opt.has_value =>
         /\ \A n \in 0..3 :
              AttributeFile(n).exists /\ AttributeFile(n).readable
         /\ \A n \in 1..3 : Len(AttributeFile(n).data) >= 4
         /\ device_opt.value.hw_type /= <<>>
         /\ ~Blank(dt.type.data)

\* the type and two revision files are fine, the patch file holds three
\* bytes, and get_device returned no device
C11_Witness ==
  /\ Called("get_device")
  /\ dt.type = File(TypeM)
  /\ dt.major = File(<<0, 0, 0, 1>>)
  /\ dt.minor = File(<<0, 0, 0, 0>>)
  /\ dt.patch = File(<<0, 0, 1>>)
  /\ ~device_opt.has_value
  /\ outcome = "nullopt"

\* all four reads succeeded and the device is returned
C11_WitnessDevice ==
  /\ Called("get_device")
  /\ ~NoDeviceCase
  /\ device_opt.has_value

RECURSIVE BigEndian(_, _)
\* the number the first n bytes of b stand for, most significant byte first
BigEndian(b, n) == IF n = 0 THEN 0 ELSE BigEndian(b, n - 1) * 256 + b[n]

\* C12: each component of the revision of the device that get_device
\* returned, and of the device of the result of get, is the big-endian value
\* of the first four bytes of its file
C12_BigEndian ==
  /\ device_opt.has_value =>
       /\ device_opt.value.hw_revision.major = BigEndian(dt.major.data, 4)
       /\ device_opt.value.hw_revision.minor = BigEndian(dt.minor.data, 4)
       /\ device_opt.value.hw_revision.patch = BigEndian(dt.patch.data, 4)
  /\ info.has_value =>
       /\ info.value.dev.hw_revision.major = BigEndian(dt.major.data, 4)
       /\ info.value.dev.hw_revision.minor = BigEndian(dt.minor.data, 4)
       /\ info.value.dev.hw_revision.patch = BigEndian(dt.patch.data, 4)

\* a device whose major uses all four bytes, whose minor is the largest
\* value below 2^31 and whose patch file holds a fifth byte
C12_Witness ==
  /\ dt.major = File(<<1, 2, 3, 4>>)
  /\ dt.minor = File(<<127, 255, 255, 255>>)
  /\ dt.patch = File(<<0, 0, 0, 1, 9>>)
  /\ info.has_value
  /\ info.value.dev.hw_revision = Rev(16909060, 2147483647, 1)

(***************************************************************************)
(* extract_revision and revision::as_string over texts                     *)
(***************************************************************************)
MaxTextLen == 8

MaxShortLen == 5

\* the texts of at most n characters of the alphabet A
Words(A, n) == UNION {[1..k -> A] : k \in 0..n}

\* texts named by the tests of extract_revision, and texts with a component
\* at and above the limits of std::size_t
ExampleTexts ==
  { <<>>, <<"1">>, <<"1", ".", "2">>,
    <<"1", "-", "2", ".", "3">>, <<"1", ".", "2", "-", "3">>,
    <<"a", ".", "2", ".", "3">>, <<"1", ".", "b", ".", "3">>,
    <<"1", ".", "2", ".", "c">>,
    <<"+", "1", ".", "2", ".", "3">>, <<"-", "1", ".", "2", ".", "3">>,
    <<" ", "1", ".", "2", ".", "3">>, <<"1", ".", "2", ".", "3", " ">>,
    <<"1", ".", "2", ".", "3", "\n">>,
    <<"1", ".", " ", "2", ".", "3">>, <<"1", ".", "2", ".", "+", "3">>,
    <<"1", ".", "2", ".", "3", ".", "4">>,
    <<"1", ".", "2", ".", "3", "x">>,
    <<"1", "0", ".", "2", "0", ".", "3", "0">>,
    <<"0", "0", "7", ".", "0", "0", ".", "0", "1", "0">>,
    <<"2", "1", "4", "7", "4", "8", "3", "6", "4", "7", ".", "0", ".", "9">>,
    SizeMaxDigits \o <<"0", ".", "0", ".", "0">>,
    <<"0", ".", "0", ".", "1", "8", "4", "4", "6", "7", "4", "4", "0", "7",
      "3", "7", "0", "9", "5", "5", "1", "6", "1", "6">> }

\* the texts given to extract_revision
Texts ==
  ExampleTexts
    \cup Words({"0", "1", "."}, MaxTextLen)
    \cup Words({"1", ".", "+", "-", " ", "a"}, MaxShortLen)

\* the locals of get while get is not being called
Idle ==
  /\ pc = "none"
  /\ device_opt = nullopt
  /\ hwdb = <<>>
  /\ type_iter = 0
  /\ revisions = <<>>
  /\ revision_iter = 0
  /\ hwrevision_iter = 0
  /\ calls = <<>>
  /\ outcome = "running"
  /\ info = nullopt
  /\ error = NoError

\* get is not being called and no file is there
NoQuery ==
  /\ dt = Tree(Missing, Missing, Missing, Missing)
  /\ schemaFile = Missing
  /\ hwdbFile = Missing
  /\ Idle

locals ==
  <<pc, device_opt, hwdb, type_iter, revisions, revision_iter,
    hwrevision_iter, calls, outcome, info, error>>

InitParse ==
  /\ str \in Texts
  /\ extracted = nullopt
  /\ formatted = <<>>
  /\ rest = <<>>
  /\ NoQuery
  /\ NoMain
  /\ FirstCall
  /\ NoQuery2

\* extract_revision(rev_str) on a text that a NUL follows; the result is the
\* revision, or the std::runtime_error with the text it names
ExtractRevision ==
  /\ ~extracted.has_value
  /\ extracted' = Some(extract_revision(str, NUL))
  /\ UNCHANGED <<files, locals, str, rest, formatted, main_pc, dev, cout,
                 exit_code, ncalls, previous, dt2, q2>>

\* as_string() of the revision that was extracted
AsString ==
  /\ extracted.has_value
  /\ extracted.value.ok
  /\ formatted = <<>>
  /\ formatted' = as_string(extracted.value.rev)
  /\ UNCHANGED <<files, locals, str, rest, extracted, main_pc, dev, cout,
                 exit_code, ncalls, previous, dt2, q2>>

NextParse ==
  \/ ExtractRevision
  \/ AsString

SpecParse == InitParse /\ [][NextParse]_vars

\* the positions of the '.' characters of t
Dots(t) == {i \in 1..Len(t) : t[i] = "."}

FirstDot(t) == CHOOSE i \in Dots(t) : \A j \in Dots(t) : i <= j

LastDot(t) == CHOOSE i \in Dots(t) : \A j \in Dots(t) : j <= i

\* t is three non-empty runs of decimal digits separated by two '.'
IsVersionText(t) ==
  /\ Cardinality(Dots(t)) = 2
  /\ \A i \in 1..Len(t) : IsDigit(t[i]) \/ t[i] = "."
  /\ 1 < FirstDot(t)
  /\ FirstDot(t) + 1 < LastDot(t)
  /\ LastDot(t) < Len(t)

\* the three runs of digits X, Y, Z of a text X.Y.Z
MajorText(t) == SubSeq(t, 1, FirstDot(t) - 1)

MinorText(t) == SubSeq(t, FirstDot(t) + 1, LastDot(t) - 1)

PatchText(t) == SubSeq(t, LastDot(t) + 1, Len(t))

RECURSIVE Pow10(_)
Pow10(n) == IF n = 0 THEN 1 ELSE 10 * Pow10(n - 1)

RECURSIVE NumberFrom(_, _)
\* the number the digits of d from position i on stand for
NumberFrom(d, i) ==
  IF i > Len(d) THEN 0
  ELSE DigitVal(d[i]) * Pow10(Len(d) - i) + NumberFrom(d, i + 1)

\* the revision a text X.Y.Z stands for
RevisionOfText(t) ==
  Rev(NumberFrom(MajorText(t), 1), NumberFrom(MinorText(t), 1),
      NumberFrom(PatchText(t), 1))

\* each component of a text X.Y.Z is at most the largest std::size_t
FitsSizeT(t) ==
  /\ ~Overflows(MajorText(t))
  /\ ~Overflows(MinorText(t))
  /\ ~Overflows(PatchText(t))

\* C13: a text that is not three non-empty runs of decimal digits separated
\* by two '.' is rejected by extract_revision with its error, and no
\* revision comes out of it
C13_Rejects ==
  extracted.has_value /\ ~IsVersionText(str) =>
    /\ ~extracted.value.ok
    /\ formatted = <<>>

\* the text "-1.2.3" was given and rejected
C13_Witness ==
  /\ str = <<"-", "1", ".", "2", ".", "3">>
  /\ extracted.has_value
  /\ ~extracted.value.ok

\* a fourth component was given and rejected
C13_WitnessFourth ==
  /\ str = <<"1", ".", "2", ".", "3", ".", "4">>
  /\ extracted.has_value
  /\ ~extracted.value.ok

\* C14 as stated: every text X.Y.Z of decimal digits is accepted with the
\* values of X, Y and Z
C14_AsStated ==
  extracted.has_value /\ IsVersionText(str) =>
    /\ extracted.value.ok
    /\ extracted.value.rev = RevisionOfText(str)

\* C14: every text X.Y.Z of decimal digits whose components are at most the
\* largest std::size_t is accepted with major, minor and patch the values of
\* X, Y and Z
C14_Accepts ==
  extracted.has_value /\ IsVersionText(str) /\ FitsSizeT(str) =>
    /\ extracted.value.ok
    /\ extracted.value.rev = RevisionOfText(str)

\* a text with multi-digit components and a zero was accepted
C14_Witness ==
  /\ str = <<"1", "0", ".", "0", ".", "1", "1">>
  /\ extracted.has_value
  /\ extracted.value.ok
  /\ extracted.value.rev = Rev(10, 0, 11)

\* a run of digits in its canonical spelling: no leading zeros
CanonDigits(d) == IF StripZeros(d) = <<>> THEN <<"0">> ELSE StripZeros(d)

\* a text X.Y.Z with each component in its canonical spelling
CanonText(t) ==
  CanonDigits(MajorText(t)) \o <<".">> \o CanonDigits(MinorText(t))
    \o <<".">> \o CanonDigits(PatchText(t))

\* C15 as stated: a text that was parsed and formatted gives the same text
C15_AsStated ==
  extracted.has_value /\ extracted.value.ok /\ formatted /= <<>> =>
    formatted = str

\* C15: a text that was parsed and formatted gives the text with each
\* component in its canonical spelling, which is the same text exactly when
\* no component has a leading zero
C15_RoundTrip ==
  extracted.has_value /\ extracted.value.ok /\ formatted /= <<>> =>
    /\ IsVersionText(str)
    /\ formatted = CanonText(str)
    /\ formatted = str <=> CanonText(str) = str

\* a canonical text with a multi-digit component came back unchanged
C15_Witness ==
  /\ str = <<"1", "0", ".", "2", "0", ".", "3", "0">>
  /\ formatted = str

\* a text with leading zeros came back in its canonical spelling
C15_WitnessZeros ==
  /\ str = <<"0", "1", ".", "0", ".", "0", "0">>
  /\ formatted = <<"1", ".", "0", ".", "0">>

(***************************************************************************)
(* The pins of the result                                                  *)
(***************************************************************************)
\* a revision was selected and get returned its result
RevisionSelected ==
  /\ pc = "done"
  /\ outcome = "info"
  /\ revision_iter /= 0

\* the entry of the device's bucket that is stored under the canonical
\* spelling of the selected version: the first member of that name
SelectedEntry ==
  Bucket[CHOOSE i \in 1..Len(Bucket) :
           /\ Bucket[i].name = as_string(SelectedVersion)
           /\ \A j \in 1..(i - 1) :
                Bucket[j].name /= as_string(SelectedVersion)].value

\* the pin of the result that the member m of a "pins" object stands for
PinOf(m) ==
  [name |-> m.name, number |-> m.value.value,
   description |-> m.value.description]

\* the pins of the result are the pins of the "pins" object, one for each
\* name
SamePins(result, object) ==
  /\ \A i \in 1..Len(result) :
       \E k \in 1..Len(object) : result[i] = PinOf(object[k])
  /\ \A k \in 1..Len(object) :
       \E i \in 1..Len(result) : result[i].name = object[k].name
  /\ Len(result) = Cardinality({object[k].name : k \in 1..Len(object)})

\* C16: when a revision is selected, the pins of the result are the pins of
\* the entry of the selected revision in the bucket of the device's type,
\* one pin for each pin name, its number the "value" and its description the
\* "description" of the entry
C16_PinsOfSelected ==
  RevisionSelected =>
    /\ info.has_value
    /\ SamePins(info.value.pins, SelectedEntry.pins)

\* the bucket holds several revisions, a version other than the requested
\* one and other than the first stored one was selected, and its pins are
\* the result
C16_Witness ==
  /\ RevisionSelected
  /\ Len(Bucket) > 1
  /\ SelectedVersion /= Requested
  /\ Bucket[1].name /= as_string(SelectedVersion)
  /\ Len(info.value.pins) = 2
  /\ info.value.pins[1].description = as_string(SelectedVersion)

\* C17: the pins of every result are in strictly ascending order of their
\* names, so no two pins of a result have the same name
C17_PinsAscending ==
  info.has_value =>
    \A i \in 1..Len(info.value.pins) :
      \A j \in (i + 1)..Len(info.value.pins) :
        /\ StrLess(info.value.pins[i].name, info.value.pins[j].name)
        /\ info.value.pins[i].name /= info.value.pins[j].name

\* the database stores the pin "B" before the pin "A" and the result holds
\* "A" before "B"
C17_Witness ==
  /\ RevisionSelected
  /\ SelectedEntry.pins[1].name = <<"B">>
  /\ SelectedEntry.pins[2].name = <<"A">>
  /\ info.value.pins[1].name = <<"A">>
  /\ info.value.pins[2].name = <<"B">>

(***************************************************************************)
(* main of er-hwinfo                                                       *)
(***************************************************************************)
\* a database whose only key of the type "m" is spelled "01.0.0"
NonCanonHwdb ==
  Json(<< [name |-> TypeM, value |-> <<Member(NonCanonList[1])>>] >>)

\* one line written to std::cout: the format text and its argument
Line(text, arg) == [text |-> text, arg |-> arg]

NotFoundLine == Line("No Effective Range device found.", <<>>)

NoPinsLines ==
  << Line("", <<>>),
     Line("No pin information available for this device.", <<>>) >>

DeviceLines(d) ==
  << Line("Device type: ", d.hw_type),
     Line("Device revision: ", as_string(d.hw_revision)) >>

\* std::max over the start value and the sizes of the texts
MaxWidth(start, sizes) ==
  CHOOSE w \in sizes \cup {start} : \A v \in sizes \cup {start} : v <= w

name_width(pins) ==
  MaxWidth(4, {Len(pins[i].name) : i \in 1..Len(pins)})

desc_width(pins) ==
  MaxWidth(11, {Len(pins[i].description) : i \in 1..Len(pins)})

\* the header, the rule and one row for each pin, in the order of the set
TableLines(pins) ==
  << Line("", <<>>),
     Line("header", <<name_width(pins), desc_width(pins)>>),
     Line("rule", <<name_width(pins), desc_width(pins)>>) >>
    \o [i \in 1..Len(pins) |->
          Line("row", <<pins[i].name, pins[i].number, pins[i].description,
                        name_width(pins), desc_width(pins)>>)]

InitCli ==
  /\ dt \in BadTrees \cup GoodTrees
  /\ schemaFile \in SchemaFiles
  /\ hwdbFile \in SomeHwdbFiles \cup {NonCanonHwdb}
  /\ Idle
  /\ NoParse
  /\ main_pc = "get_device"
  /\ dev = nullopt
  /\ cout = <<>>
  /\ exit_code = -1
  /\ FirstCall
  /\ NoQuery2

\* auto const dev = impl::get_device(dt_path): without a device the message
\* is printed and main returns 1; with a device its type and revision are
\* printed and get(dt_path) is entered
MainGetDevice ==
  /\ main_pc = "get_device"
  /\ dev' = get_device(dt)
  /\ IF ~dev'.has_value
       THEN /\ cout' = <<NotFoundLine>>
            /\ exit_code' = 1
            /\ main_pc' = "exited"
            /\ pc' = pc
       ELSE /\ cout' = DeviceLines(dev'.value)
            /\ exit_code' = exit_code
            /\ main_pc' = "get"
            /\ pc' = "get_device"
  /\ UNCHANGED <<files, device_opt, hwdb, type_iter, revisions,
                 revision_iter, hwrevision_iter, calls, outcome, info, error,
                 str, rest, extracted, formatted, ncalls, previous, dt2, q2>>

\* the pin_set of main after the try block: the pins of a present result;
\* empty after std::runtime_error and after an absent result
MainPins ==
  IF outcome = "info" /\ info.has_value THEN info.value.pins ELSE <<>>

\* get has returned or thrown.  std::runtime_error is caught; then the pins
\* are printed, or the message that there are none, and main returns 0.
\* std::logic_error is not caught: std::terminate ends the process without
\* an exit code, and what was written to std::cout before may be lost.
MainAfterGet ==
  /\ main_pc = "get"
  /\ pc = "done"
  /\ IF outcome = "logic_error"
       THEN /\ main_pc' = "aborted"
            /\ cout' \in {cout, <<>>}
            /\ exit_code' = exit_code
       ELSE /\ main_pc' = "exited"
            /\ exit_code' = 0
            /\ cout' = cout \o (IF MainPins = <<>> THEN NoPinsLines
                                                   ELSE TableLines(MainPins))
  /\ UNCHANGED <<files, locals, dev, str, rest, extracted, formatted, ncalls,
                 previous, dt2, q2>>

NextCli ==
  \/ MainGetDevice
  \/ GetDevice
  \/ ReadAndValidateJson
  \/ FindType
  \/ ResolveRevision
  \/ CollectPins
  \/ MainAfterGet

SpecCli == InitCli /\ [][NextCli]_vars

\* main has ended, by a return or by std::terminate
MainEnded == main_pc \in {"exited", "aborted"}

Printed(line) ==
  \E i \in 1..Len(cout) :
    cout[i].text = line.text /\ cout[i].arg = line.arg

\* the type and the revision of the device were printed
DevicePrinted ==
  /\ Printed(Line("Device type: ", ReadWord(dt.type)))
  /\ Printed(Line("Device revision: ", as_string(DtRevision)))

\* the hardware database cannot be used: the schema or the database cannot
\* be read or parsed, or the database does not conform to the schema
DbUnusable == SchemaFails \/ HwdbFails

\* C18 as stated: when main has ended, the message that no device was found
\* was printed with exit code 1 exactly when the device tree holds no
\* device; with a device the type and the revision were printed and the
\* exit code is 0, and with a database that cannot be used the message that
\* there is no pin information was printed
C18_AsStated ==
  MainEnded =>
    /\ (exit_code = 1 /\ Printed(NotFoundLine)) <=> ~DevicePresent
    /\ DevicePresent => exit_code = 0 /\ DevicePrinted
    /\ DevicePresent /\ DbUnusable => Printed(NoPinsLines[2])

\* what holds of main when the query does not end in std::logic_error
C18_Handled ==
  MainEnded /\ outcome /= "logic_error" => C18_AsStated

\* the database cannot be used and main went on without pin information
C18_WitnessNoPins ==
  /\ MainEnded
  /\ DevicePresent
  /\ DbUnusable
  /\ exit_code = 0
  /\ Printed(NoPinsLines[2])

(***************************************************************************)
(* get as a function of the three files, step by step                      *)
(***************************************************************************)
\* the locals of a call of get when it is entered
EntryLocals ==
  [pc |-> "get_device", device_opt |-> nullopt, hwdb |-> <<>>,
   type_iter |-> 0, hwrevision_iter |-> 0, outcome |-> "running",
   info |-> nullopt, error |-> NoError]

\* auto device_opt = impl::get_device(dt_base_path)
StepGetDevice(q, d) ==
  IF d.has_value
    THEN [q EXCEPT !.device_opt = d, !.pc = "read_and_validate_json"]
    ELSE [q EXCEPT !.device_opt = d, !.pc = "done", !.outcome = "nullopt"]

\* rapidjson::Document hwdb = impl::read_and_validate_json<flags>(...)
StepLoad(q, r) ==
  IF r.ok
    THEN [q EXCEPT !.hwdb = r.doc, !.pc = "find_type"]
    ELSE [q EXCEPT !.outcome = "runtime_error",
                   !.error = [msg |-> r.what, arg |-> <<>>],
                   !.pc = "done"]

\* hwdb.FindMember(device_opt->hw_type.c_str())
StepFindType(q, t) ==
  IF t = 0
    THEN [q EXCEPT !.type_iter = t,
                   !.info = Some([dev |-> q.device_opt.value,
                                  pins |-> <<>>]),
                   !.outcome = "info", !.pc = "done"]
    ELSE [q EXCEPT !.type_iter = t, !.pc = "resolve_revision"]

\* impl::resolve_revision(device_opt->hw_revision, type_entry)
StepResolve(q, r) ==
  CASE r.kind = "runtime_error" ->
         [q EXCEPT !.outcome = "runtime_error",
                   !.error = [msg |-> ErrorPrefix, arg |-> r.what],
                   !.pc = "done"]
    [] r.kind = "logic_error" ->
         [q EXCEPT !.outcome = "logic_error",
                   !.error = [msg |-> "Inconsistent hardware database: ",
                              arg |-> r.what],
                   !.pc = "done"]
    [] r.kind = "end" ->
         [q EXCEPT !.info = Some([dev |-> q.device_opt.value,
                                  pins |-> <<>>]),
                   !.outcome = "info", !.pc = "done"]
    [] r.kind = "member" ->
         [q EXCEPT !.hwrevision_iter = r.member, !.pc = "collect_pins"]

\* the pins of hwrev_entry["pins"] collected into the result
StepCollect(q) ==
  [q EXCEPT !.info = Some([dev |-> q.device_opt.value,
                           pins |-> CollectPinSet(
                             q.hwdb[q.type_iter].value[q.hwrevision_iter]
                               .value.pins, 1, <<>>)]),
            !.outcome = "info", !.pc = "done"]

\* one step of a call of get with the locals q
QueryStep(q, dt_base_path, hwdb_path, hwdb_schema_path) ==
  CASE q.pc = "get_device" -> StepGetDevice(q, get_device(dt_base_path))
    [] q.pc = "read_and_validate_json" ->
         StepLoad(q, read_and_validate_json(hwdb_path, hwdb_schema_path))
    [] q.pc = "find_type" ->
         StepFindType(q, FindMember(q.hwdb, q.device_opt.value.hw_type))
    [] q.pc = "resolve_revision" ->
         StepResolve(q, resolve_revision(q.device_opt.value.hw_revision,
                                         q.hwdb[q.type_iter].value))
    [] q.pc = "collect_pins" -> StepCollect(q)
    [] OTHER -> q

RECURSIVE RunQuery(_, _, _, _)
\* the steps of a call of get up to its end
RunQuery(q, dt_base_path, hwdb_path, hwdb_schema_path) ==
  IF q.pc = "done" THEN q
  ELSE RunQuery(QueryStep(q, dt_base_path, hwdb_path, hwdb_schema_path),
                dt_base_path, hwdb_path, hwdb_schema_path)

\* what a call of get gives its caller
ResultOf(q) == [outcome |-> q.outcome, info |-> q.info, error |-> q.error]

\* get(dt_base_path, hwdb_path, hwdb_schema_path), run alone
get(dt_base_path, hwdb_path, hwdb_schema_path) ==
  ResultOf(RunQuery(EntryLocals, dt_base_path, hwdb_path, hwdb_schema_path))

(***************************************************************************)
(* Calls of get one after another, the files changing in between           *)
(***************************************************************************)
MaxCalls == 2

\* device trees: no device, and the type "m" at 1.0.0 and at 0.0.0
RepeatTrees ==
  { Tree(Missing, Missing, Missing, Missing),
    GoodTree(TypeM, Rev(1, 0, 0)), GoodTree(TypeM, Rev(0, 0, 0)) }

RepeatSchemaFiles == {Missing, Json(HwdbSchema)}

\* databases: missing, without types, and the type "m" with the key "1.0.0",
\* with the key "1.0.1", with a malformed key, with a key that is not
\* canonical
RepeatHwdbFiles ==
  { Missing, Json(<<>>),
    Json(<< [name |-> TypeM, value |-> <<Member(K100)>>] >>),
    Json(<< [name |-> TypeM,
             value |-> <<Member(as_string(Rev(1, 0, 1)))>>] >>),
    Json(<< [name |-> TypeM, value |-> <<Member(MalformedList[1])>>] >>),
    NonCanonHwdb }

InitRepeat ==
  /\ dt \in RepeatTrees
  /\ schemaFile \in RepeatSchemaFiles
  /\ hwdbFile \in RepeatHwdbFiles
  /\ Entry
  /\ NoParse
  /\ NoMain
  /\ FirstCall
  /\ NoQuery2

\* what the call that has ended gave its caller
Result == [outcome |-> outcome, info |-> info, error |-> error]

\* after a call has ended the files are rewritten by their owners in any way
\* and get is called again, with new locals
CallAgain ==
  /\ pc = "done"
  /\ ncalls < MaxCalls
  /\ ncalls' = ncalls + 1
  /\ previous' = Some(Result)
  /\ dt' \in RepeatTrees
  /\ schemaFile' \in RepeatSchemaFiles
  /\ hwdbFile' \in RepeatHwdbFiles
  /\ pc' = "get_device"
  /\ device_opt' = nullopt
  /\ hwdb' = <<>>
  /\ type_iter' = 0
  /\ revisions' = <<>>
  /\ revision_iter' = 0
  /\ hwrevision_iter' = 0
  /\ calls' = <<>>
  /\ outcome' = "running"
  /\ info' = nullopt
  /\ error' = NoError
  /\ UNCHANGED <<str, rest, extracted, formatted, main_pc, dev, cout, exit_code,
                 dt2, q2>>

NextRepeat ==
  \/ GetDevice
  \/ ReadAndValidateJson
  \/ FindType
  \/ ResolveRevision
  \/ CollectPins
  \/ CallAgain

SpecRepeat == InitRepeat /\ [][NextRepeat]_vars

C19_WitnessPins ==
  /\ ncalls = 2
  /\ pc = "done"
  /\ previous.value.outcome = "info"
  /\ outcome = "info"
  /\ previous.value.info.value.dev = info.value.dev
  /\ previous.value.info.value.pins /= info.value.pins
  /\ info.value.pins /= <<>>
  /\ previous.value.info.value.pins /= <<>>

(***************************************************************************)
(* Two queries at the same time                                            *)
(***************************************************************************)
\* the second query is made when it reads the device of the first query in
\* the place of its own: the device is kept in a variable the queries share
Query2StepShared ==
  /\ q2.has_value
  /\ q2.value.pc /= "done"
  /\ q2' = Some(QueryStep(
             IF device_opt.has_value /\ q2.value.device_opt.has_value
               THEN [q2.value EXCEPT !.device_opt = device_opt]
               ELSE q2.value,
             dt2, hwdbFile, schemaFile))
  /\ UNCHANGED <<files, locals, str, rest, extracted, formatted, main_pc, dev,
                 cout, exit_code, ncalls, previous, dt2>>

\* one step of the second query: get(dt2, hwdb_path, hwdb_schema_path) with
\* its own locals q2
Query2Step ==
  /\ q2.has_value
  /\ q2.value.pc /= "done"
  /\ q2' = Some(QueryStep(q2.value, dt2, hwdbFile, schemaFile))
  /\ UNCHANGED <<files, locals, str, rest, extracted, formatted, main_pc, dev,
                 cout, exit_code, ncalls, previous, dt2>>

\* device trees of the two queries: no device, the type "m" at 1.0.0 and at
\* 0.0.0, and the type "o"
TwoTrees == RepeatTrees \cup {GoodTree(TypeO, Rev(1, 0, 0))}

\* the databases of the calls one after another, and the type "m" with the
\* keys "1.0.0" and "0.0.0"
TwoHwdbFiles ==
  RepeatHwdbFiles
    \cup {Json(<< [name |-> TypeM,
                   value |-> <<Member(K100),
                               Member(as_string(Rev(0, 0, 0)))>>] >>)}

InitTwo ==
  /\ dt \in TwoTrees
  /\ schemaFile \in RepeatSchemaFiles
  /\ hwdbFile \in TwoHwdbFiles
  /\ Entry
  /\ NoParse
  /\ NoMain
  /\ FirstCall
  /\ dt2 \in TwoTrees
  /\ q2 = Some(EntryLocals)

NextTwo ==
  \/ GetDevice
  \/ ReadAndValidateJson
  \/ FindType
  \/ ResolveRevision
  \/ CollectPins
  \/ Query2Step

SpecTwo == InitTwo /\ [][NextTwo]_vars

\* each query that has ended gave what get gives for its files when it runs
\* alone
SameAsAlone ==
  /\ pc = "done" => Result = get(dt, hwdbFile, schemaFile)
  /\ q2.value.pc = "done" =>
       ResultOf(q2.value) = get(dt2, hwdbFile, schemaFile)

\* a step leaves the files as they are, and changes the locals of one query
\* only
NoSharedWrite ==
  /\ UNCHANGED <<files, dt2>>
  /\ locals' = locals \/ q2' = q2

\* C20: in every interleaving of the steps of two queries over unchanged
\* files each query ends with what it gives when it runs alone, and no step
\* of a query writes a file or a variable of the other query
C20_Independent == [](SameAsAlone) /\ [][NoSharedWrite]_vars

\* both queries have ended, over different device trees, with different
\* results that both hold pins
C20_Witness ==
  /\ pc = "done"
  /\ q2.value.pc = "done"
  /\ dt /= dt2
  /\ outcome = "info"
  /\ q2.value.outcome = "info"
  /\ info.value.pins /= <<>>
  /\ q2.value.info.value.pins /= <<>>
  /\ info.value.pins /= q2.value.info.value.pins

(***************************************************************************)
(* resolve_revision over buckets in every storage order                    *)
(***************************************************************************)
\* the keys of the buckets that are stored in every order: versions of three
\* majors, a key that is not canonical and a key that does not parse
OrderKeyList ==
  << as_string(Rev(1, 0, 0)), as_string(Rev(1, 0, 1)),
     as_string(Rev(1, 1, 0)), as_string(Rev(2, 0, 0)),
     as_string(Rev(0, 1, 0)), NonCanonList[1], MalformedList[1] >>

\* the pins stored under the key at position k of OrderKeyList
OrderMember(k) ==
  [name |-> OrderKeyList[k],
   value |-> [pins |-> << [name |-> <<"A">>,
                           value |-> [value |-> k,
                                      description |-> OrderKeyList[k]]] >>]]

\* the sequences of at most n different positions of OrderKeyList, in every
\* order
OrderSeqs(n) ==
  UNION { {s \in [1..k -> 1..Len(OrderKeyList)] :
             \A i \in 1..k : \A j \in 1..k : i /= j => s[i] /= s[j]} :
          k \in 0..n }

OrderBuckets ==
  {[i \in 1..Len(s) |-> OrderMember(s[i])] : s \in OrderSeqs(MaxKeys)}

InitOrder ==
  /\ dt \in TreesM
  /\ schemaFile = Json(HwdbSchema)
  /\ hwdbFile \in {Json(<< [name |-> TypeM, value |-> b] >>) :
                     b \in OrderBuckets}
  /\ Entry
  /\ NoParse
  /\ NoMain
  /\ FirstCall
  /\ NoQuery2

SpecOrder == InitOrder /\ [][Next]_vars

\* what resolve_revision selected: a version, none, or the error of a key
SelectionOf(r) ==
  CASE r.kind = "runtime_error" -> [kind |-> "error", rev |-> Rev(0, 0, 0)]
    [] r.kind = "end" -> [kind |-> "none", rev |-> Rev(0, 0, 0)]
    [] OTHER -> [kind |-> "selected", rev |-> r.set[r.sel]]

\* what the call of resolve_revision of this query selected
Selection ==
  IF outcome = "runtime_error"
    THEN [kind |-> "error", rev |-> Rev(0, 0, 0)]
  ELSE IF revision_iter = 0 THEN [kind |-> "none", rev |-> Rev(0, 0, 0)]
  ELSE [kind |-> "selected", rev |-> revisions[revision_iter]]

\* the members of the object b in the order p
Permuted(b, p) == [i \in 1..Len(b) |-> b[p[i]]]

\* C21: the version that resolve_revision selected for the bucket of the
\* query is the version it selects for the same members stored in any other
\* order
C21_OrderIndependent ==
  Called("resolve_revision") =>
    \A p \in Permutations(1..Len(TypeEntry)) :
      SelectionOf(resolve_revision(Requested, Permuted(TypeEntry, p)))
        = Selection

\* three keys stored in descending order of their versions, and the forward
\* match selected the version stored first
C21_Witness ==
  /\ Called("resolve_revision")
  /\ Len(TypeEntry) = 3
  /\ TypeEntry[1].name = as_string(Rev(1, 1, 0))
  /\ TypeEntry[2].name = as_string(Rev(1, 0, 1))
  /\ TypeEntry[3].name = as_string(Rev(0, 1, 0))
  /\ Requested = Rev(1, 1, 0)
  /\ Selection = [kind |-> "selected", rev |-> Rev(1, 1, 0)]

\* the positions of two differently spelled keys of the bucket that parse to
\* the version v
SpelledTwice(v) ==
  \E i \in 1..Len(TypeEntry) : \E j \in 1..Len(TypeEntry) :
    /\ TypeEntry[i].name /= TypeEntry[j].name
    /\ extract_revision(CStr(TypeEntry[i].name), NUL).rev = v
    /\ extract_revision(CStr(TypeEntry[j].name), NUL).rev = v

HasKey(key) == \E i \in 1..Len(TypeEntry) : TypeEntry[i].name = key

\* C22: when the keys of the bucket parse and two differently spelled keys
\* parse to one version, that version is one candidate; if its canonical
\* spelling is a key and the version is selected, the query ends without
\* error with the member and the pins stored under the canonical spelling
C22_OneCandidate ==
  Parsed =>
    \A v \in CandidateSet :
      SpelledTwice(v) =>
        /\ Cardinality({k \in 1..Len(revisions) : revisions[k] = v}) = 1
        /\ Len(revisions) = Cardinality(CandidateSet)
        /\ HasKey(as_string(v)) /\ Selection.rev = v
             /\ Selection.kind = "selected" =>
               /\ outcome /= "logic_error"
               /\ TypeEntry[hwrevision_iter].name = as_string(v)
               /\ pc = "done" =>
                    /\ outcome = "info"
                    /\ \A i \in 1..Len(info.value.pins) :
                         info.value.pins[i].description = as_string(v)
                    /\ info.value.pins /= <<>>

\* "01.0.0" is stored before "1.0.0", the version 1.0.0 was selected and the
\* pins are those stored under "1.0.0"
C22_Witness ==
  /\ Parsed
  /\ pc = "done"
  /\ Len(TypeEntry) >= 2
  /\ TypeEntry[1].name = NonCanonList[1]
  /\ TypeEntry[2].name = as_string(Rev(1, 0, 0))
  /\ Selection = [kind |-> "selected", rev |-> Rev(1, 0, 0)]
  /\ outcome = "info"
  /\ info.value.pins[1].description = as_string(Rev(1, 0, 0))

(***************************************************************************)
(* The size of a component                                                 *)
(***************************************************************************)
\* the run of digits the text starts with
FirstRun == SubSeq(str, 1, DigitsEnd(str, 1) - 1)

\* the text starts with a non-empty run of digits that a '.' follows
FirstComponentGiven ==
  /\ FirstRun /= <<>>
  /\ Len(FirstRun) < Len(str)
  /\ str[Len(FirstRun) + 1] = "."

\* the first component was accepted: the text was accepted, or the error
\* names a later part of the text
FirstComponentAccepted ==
  extracted.value.ok \/ extracted.value.what /= str

\* C23 as stated: every non-empty run of digits is accepted as the first
\* component and gives its value
C23_AsStated ==
  extracted.has_value /\ FirstComponentGiven =>
    /\ FirstComponentAccepted
    /\ extracted.value.ok =>
         extracted.value.rev.major = NumberFrom(FirstRun, 1)

\* C23: a non-empty run of digits whose value is at most the largest
\* std::size_t is accepted as the first component and gives its value; a
\* run above it is rejected with the error of the component, and never
\* gives a value
C23_BoundedComponent ==
  extracted.has_value /\ FirstComponentGiven =>
    IF Overflows(FirstRun)
      THEN ~extracted.value.ok /\ extracted.value.what = str
      ELSE /\ FirstComponentAccepted
           /\ extracted.value.ok =>
                extracted.value.rev.major = NumberFrom(FirstRun, 1)

\* the largest value below 2^31 was accepted as the major
C23_Witness ==
  /\ extracted.has_value
  /\ extracted.value.ok
  /\ FirstRun = <<"2", "1", "4", "7", "4", "8", "3", "6", "4", "7">>
  /\ extracted.value.rev.major = 2147483647

\* a major of 21 digits was rejected
C23_WitnessAbove ==
  /\ extracted.has_value
  /\ FirstComponentGiven
  /\ Len(FirstRun) = 21
  /\ ~extracted.value.ok

(***************************************************************************)
(* The backward search                                                     *)
(***************************************************************************)
\* the position of the first candidate that is not below the requested
\* version; one past the end if there is none
LowerBoundPosition ==
  Cardinality({k \in 1..Len(revisions) : RevLess(revisions[k], Requested)})
    + 1

\* there is no candidate at the lower bound, or it is neither the requested
\* version nor of its major: the backward search runs
BackwardSearchRan ==
  \/ LowerBoundPosition = Len(revisions) + 1
  \/ /\ revisions[LowerBoundPosition] /= Requested
     /\ revisions[LowerBoundPosition].major /= Requested.major

\* C24: when the backward search ran and a version is selected, it is the
\* candidate right before the lower bound; when the candidate right before
\* the lower bound has another major, no candidate has the requested major
\* and nothing is selected
C24_ImmediatePredecessor ==
  Parsed /\ BackwardSearchRan =>
    /\ revision_iter /= 0 =>
         /\ revision_iter = LowerBoundPosition - 1
         /\ \A k \in 1..Len(revisions) :
              RevLess(revisions[k], Requested) =>
                RevLeq(revisions[k], SelectedVersion)
    /\ LowerBoundPosition > 1
         /\ revisions[LowerBoundPosition - 1].major /= Requested.major =>
           /\ \A k \in 1..Len(revisions) :
                revisions[k].major /= Requested.major
           /\ revision_iter = 0

\* two candidates of the requested major are below the requested version,
\* a candidate of a higher major is above it, and the one right before the
\* lower bound was selected
C24_Witness ==
  /\ Parsed
  /\ BackwardSearchRan
  /\ Len(revisions) = 3
  /\ LowerBoundPosition = 3
  /\ revisions[1].major = Requested.major
  /\ revisions[2].major = Requested.major
  /\ revisions[3].major /= Requested.major
  /\ revision_iter = 2

\* the candidate right before the lower bound has a lower major and nothing
\* was selected
C24_WitnessNone ==
  /\ Parsed
  /\ BackwardSearchRan
  /\ LowerBoundPosition > 1
  /\ revisions[LowerBoundPosition - 1].major /= Requested.major
  /\ revision_iter = 0

(***************************************************************************)
(* extract_revision on a view into a longer buffer                         *)
(***************************************************************************)
MaxBufLen == 6

\* the buffers a view is taken from the front of; a NUL ends each of them
Buffers ==
  Words({"0", "1", ".", "a"}, MaxBufLen)
    \cup {<<"1", ".", "2", ".", "3">>, <<"1", ".", "2", ".", "3", "4">>}

\* the character at the end of the view: the first one of what follows it,
\* or the NUL that ends the buffer
Beyond(r) == IF r = <<>> THEN NUL ELSE r[1]

\* the digits of the component that starts at first reach the end of the
\* view: *res.ptr is read there
EndsAtLast(s, first) ==
  /\ from_chars(s, first).ec = "ok"
  /\ from_chars(s, first).ptr = Len(s) + 1

\* the component c was accepted with a '.' read at the end of the view: the
\* next component starts at last + 1
PassesLast(s, c) == c.ok /\ c.next = Len(s) + 2

\* the second component, after the first component c1 that stayed within
\* the view, passes the end of the view
MinorPassesLast(s, b, c1) ==
  /\ c1.ok
  /\ c1.next <= Len(s) + 1
  /\ PassesLast(s, extract_revision_component(s, c1.next, FALSE, b))

\* std::from_chars is called with first > last
Undefined(s, b, c1) == PassesLast(s, c1) \/ MinorPassesLast(s, b, c1)

\* *res.ptr is read at the end of the view by the first or second component
ReadsLast(s, c1) ==
  \/ EndsAtLast(s, 1)
  \/ c1.ok /\ c1.next <= Len(s) + 1 /\ EndsAtLast(s, c1.next)

ViewRecord(r, read_last, fault) ==
  [ok |-> r.ok, rev |-> r.rev, what |-> r.what, read_last |-> read_last,
   fault |-> fault]

\* what a build can do after std::from_chars was called with first > last
\* and std::string_view(first, last) was made of it for the message: the
\* format of a view of negative length fails or ends the process
Faults == {"length_error", "bad_alloc", "crash"}

\* the outcomes of extract_revision on the view s that the character b
\* follows, given the result c1 of its first component
ViewOutcomes(s, b, c1) ==
  IF Undefined(s, b, c1)
    THEN {ViewRecord(RevisionError(c1), TRUE, f) : f \in Faults}
    ELSE {ViewRecord(extract_revision(s, b), ReadsLast(s, c1), "none")}

InitView ==
  /\ \E buf \in Buffers : \E n \in 0..Len(buf) :
       /\ str = SubSeq(buf, 1, n)
       /\ rest = SubSeq(buf, n + 1, Len(buf))
  /\ extracted = nullopt
  /\ formatted = <<>>
  /\ NoQuery
  /\ NoMain
  /\ FirstCall
  /\ NoQuery2

\* extract_revision(std::string_view(buffer, n))
ExtractRevisionView ==
  /\ ~extracted.has_value
  /\ \E o \in ViewOutcomes(str, Beyond(rest),
                           extract_revision_component(str, 1, FALSE,
                                                      Beyond(rest))) :
       extracted' = Some(o)
  /\ UNCHANGED <<files, locals, str, rest, formatted, main_pc, dev, cout,
                 exit_code, ncalls, previous, dt2, q2>>

NextView ==
  \/ ExtractRevisionView
  \/ AsString

SpecView == InitView /\ [][NextView]_vars

\* what extract_revision gives for the text alone
Standalone(s) ==
  ViewRecord(extract_revision(s, NUL), FALSE, "none")

\* C25 as stated: extract_revision reads no character at or beyond the end
\* of the view, and what it gives for a view is what it gives for the text
\* alone, whatever follows the view in its buffer
C25_AsStated ==
  extracted.has_value => extracted.value = Standalone(str)

\* what follows the view is not read as long as no '.' follows a view that
\* ends in the digits of its first or second component
C25_WithoutDot ==
  extracted.has_value
    /\ ~(Beyond(rest) = "." /\ extracted.value.read_last) =>
      /\ extracted.value.fault = "none"
      /\ extracted.value.ok = Standalone(str).ok
      /\ extracted.value.rev = Standalone(str).rev
      /\ extracted.value.what = Standalone(str).what

\* the view "1" of the buffer "1.2.3": the '.' after the view was read and
\* std::from_chars was called past the end of the view
C25_WitnessUndefined ==
  /\ str = <<"1">>
  /\ rest = <<".", "2", ".", "3">>
  /\ extracted.has_value
  /\ extracted.value.fault /= "none"

(***************************************************************************)
(* get over databases that hold the entries of two device types            *)
(***************************************************************************)
\* the buckets of a type entry: empty, a version, a key that is not
\* canonical, keys that do not parse, and versions around 1.0.0
FrameBuckets ==
  { <<>>,
    <<Member(K100)>>,
    <<Member(NonCanonList[1])>>,
    <<Member(MalformedList[1])>>,
    <<Member(K100), Member(MalformedList[4])>>,
    <<Member(as_string(Rev(1, 0, 1))), Member(NonCanonList[1])>>,
    <<Member(as_string(Rev(0, 0, 0))), Member(as_string(Rev(1, 1, 0)))>> }

\* the databases with an entry of type "m", of type "o", or of both in
\* either order
FrameDocs ==
  {<< [name |-> t, value |-> b] >> : t \in {TypeM, TypeO}, b \in FrameBuckets}
    \cup {<< [name |-> t[1], value |-> b1], [name |-> t[2], value |-> b2] >> :
            t \in {<<TypeM, TypeO>>, <<TypeO, TypeM>>},
            b1 \in FrameBuckets, b2 \in FrameBuckets}

InitFrame ==
  /\ dt \in {GoodTree(t, r) : t \in {TypeM, TypeO}, r \in Versions}
  /\ schemaFile = Json(HwdbSchema)
  /\ hwdbFile \in {Json(d) : d \in FrameDocs}
  /\ Entry
  /\ NoParse
  /\ NoMain
  /\ FirstCall
  /\ NoQuery2

SpecFrame == InitFrame /\ [][Next]_vars

RECURSIVE OfType(_, _, _)
\* the members of the database db from position i on whose name is type
OfType(db, type, i) ==
  IF i > Len(db) THEN <<>>
  ELSE IF db[i].name = type THEN <<db[i]>> \o OfType(db, type, i + 1)
  ELSE OfType(db, type, i + 1)

\* the database without the entries of the types other than the device's
OwnTypeOnly == Json(OfType(DbDoc, DtType, 1))

\* a type other than the device's has a key that does not parse or is not
\* canonical
OtherTypeBadKey ==
  \E i \in 1..Len(DbDoc) :
    /\ DbDoc[i].name /= DtType
    /\ \E j \in 1..Len(DbDoc[i].value) :
         \/ ~extract_revision(DbDoc[i].value[j].name, NUL).ok
         \/ as_string(extract_revision(DbDoc[i].value[j].name, NUL).rev)
              /= DbDoc[i].value[j].name

\* C26: what get gives is what it gives for the database without the
\* entries of the other types: keys of other types that do not parse or are
\* not canonical raise no error and change neither the selected revision
\* nor the pins, also when the type of the device is not in the database
C26_OwnBucketOnly ==
  pc = "done" =>
    /\ Result = get(dt, OwnTypeOnly, schemaFile)
    /\ type_iter = 0 => outcome = "info" /\ info.value.pins = <<>>

\* a query has selected a revision with pins while the bucket of the other
\* type has a key that does not parse or is not canonical
C26_Witness ==
  /\ pc = "done"
  /\ OtherTypeBadKey
  /\ outcome = "info"
  /\ revision_iter /= 0
  /\ info.value.pins /= <<>>

\* a query has ended for a device whose type is not in the database, which
\* has a key that does not parse under another type
C26_WitnessAbsent ==
  /\ pc = "done"
  /\ OtherTypeBadKey
  /\ type_iter = 0
  /\ DbDoc /= <<>>
  /\ outcome = "info"

\* the key parses but is not what as_string gives for its version
NonCanonical(key) ==
  /\ extract_revision(CStr(key), NUL).ok
  /\ as_string(extract_revision(CStr(key), NUL).rev) /= key

\* the versions of the keys of the bucket that are not canonical
NonCanonicalVersions ==
  {extract_revision(CStr(TypeEntry[i].name), NUL).rev :
     i \in {j \in 1..Len(TypeEntry) : NonCanonical(TypeEntry[j].name)}}

\* resolve_revision has built its set for a bucket with a key that is not
\* canonical
SelectedAmongNonCanonical ==
  /\ Called("resolve_revision")
  /\ outcome /= "runtime_error"
  /\ NonCanonicalVersions /= {}

\* C27: with a key in the bucket of the device that parses but is not
\* canonical, "Inconsistent hardware database" is raised only when the
\* version of such a key is the one selected; when another version or none
\* is selected the query ends with a result
C27_OnlyWhenSelected ==
  SelectedAmongNonCanonical =>
    /\ outcome = "logic_error" =>
         /\ revision_iter /= 0
         /\ revisions[revision_iter] \in NonCanonicalVersions
    /\ revision_iter = 0 \/ revisions[revision_iter] \notin NonCanonicalVersions
         => /\ outcome \in {"running", "info"}
            /\ pc = "done" => outcome = "info" /\ info.has_value

\* a query has ended with the pins of a canonical key while the bucket has
\* a key that is not canonical
C27_Witness ==
  /\ SelectedAmongNonCanonical
  /\ pc = "done"
  /\ outcome = "info"
  /\ revision_iter /= 0
  /\ revisions[revision_iter] \notin NonCanonicalVersions
  /\ info.value.pins /= <<>>

\* a query has ended with nothing selected while the bucket has a key that
\* is not canonical
C27_WitnessNone ==
  /\ SelectedAmongNonCanonical
  /\ pc = "done"
  /\ revision_iter = 0
  /\ outcome = "info"

\* the version of the key that is not canonical was selected and the error
\* was raised
C27_WitnessError ==
  /\ SelectedAmongNonCanonical
  /\ outcome = "logic_error"

\* the revision that the three revision files of the device tree hold
FileRevision ==
  Rev(BigEndian(dt.major.data, 4), BigEndian(dt.minor.data, 4),
      BigEndian(dt.patch.data, 4))

\* a result is present and a revision other than the device's was selected
OtherRevisionSelected ==
  /\ pc = "done"
  /\ info.has_value
  /\ revision_iter /= 0
  /\ revisions[revision_iter] /= FileRevision

\* C28: in every present result dev is the device that get_device read
\* from the device tree: hw_type is the word of the type file and
\* hw_revision is the revision of the revision files, not the revision
\* that was selected from the database
C28_DeviceUnchanged ==
  info.has_value =>
    /\ info.value.dev = get_device(dt).value
    /\ info.value.dev = device_opt.value
    /\ info.value.dev.hw_type = ReadWord(dt.type)
    /\ info.value.dev.hw_revision = FileRevision
    /\ OtherRevisionSelected =>
         info.value.dev.hw_revision /= revisions[revision_iter]

\* a result with pins is present for which forward match selected a
\* revision above the device's
C28_Witness ==
  /\ OtherRevisionSelected
  /\ RevLess(FileRevision, revisions[revision_iter])
  /\ info.value.pins /= <<>>

\* a result with pins is present for which backward search selected a
\* revision below the device's
C28_WitnessBackward ==
  /\ OtherRevisionSelected
  /\ RevLess(revisions[revision_iter], FileRevision)
  /\ info.value.pins /= <<>>

\* what resolve_revision selects from the bucket of the query for the
\* requested version r
SelectedFor(r) == SelectionOf(resolve_revision(r, TypeEntry))

\* resolve_revision of the query has selected a version
HasSelected ==
  /\ Called("resolve_revision")
  /\ outcome /= "runtime_error"
  /\ revision_iter /= 0

\* C29: when resolve_revision has selected a version for the device, what
\* it selects from the same bucket for that version is that version again
C29_FixedPoint ==
  HasSelected => SelectedFor(revisions[revision_iter]) = Selection

\* forward match has selected a version above the device's from a bucket
\* with a further version of the major above it
C29_Witness ==
  /\ HasSelected
  /\ RevLess(Requested, revisions[revision_iter])
  /\ \E i \in 1..Len(revisions) :
       /\ revisions[i].major = Requested.major
       /\ RevLess(revisions[revision_iter], revisions[i])

\* backward search has selected a version below the device's from a bucket
\* with a further version of the major below it
C29_WitnessBackward ==
  /\ HasSelected
  /\ RevLess(revisions[revision_iter], Requested)
  /\ \E i \in 1..Len(revisions) :
       /\ revisions[i].major = Requested.major
       /\ RevLess(revisions[i], revisions[revision_iter])

\* for the requested version r of the major of the device, not below the
\* device's, a version not below the one selected for the device is
\* selected, if any
NotBelow(r) ==
  (/\ r.major = Requested.major
   /\ RevLeq(Requested, r)
   /\ SelectedFor(r).kind = "selected")
    => RevLeq(Selection.rev, SelectedFor(r).rev)

\* C30: when resolve_revision has selected a version for the device, what
\* it selects from the same bucket for a requested version of the same
\* major that is not below the device's is not below that version
C30_Monotonic ==
  HasSelected => \A r \in Versions : NotBelow(r)

\* a version was selected for the device by forward match, and for a higher
\* requested version of the major backward search selects a higher version
C30_Witness ==
  /\ HasSelected
  /\ RevLeq(Requested, Selection.rev)
  /\ \E r \in Versions :
       /\ r.major = Requested.major
       /\ RevLess(Requested, r)
       /\ SelectedFor(r).kind = "selected"
       /\ RevLess(SelectedFor(r).rev, r)
       /\ RevLess(Selection.rev, SelectedFor(r).rev)
====
